---- MODULE Spec2Model ----
(***************************************************************************)
(* Run loop, skill activation and task queue of the Agent Skills           *)
(* Framework (src/agent.py), with the planning tool that creates tasks     *)
(* (src/skills/planning/scripts/tools.py) and the history editing done by  *)
(* grep_file (src/skills/coding/scripts/tools.py, src/utils.py).           *)
(***************************************************************************)
EXTENDS Integers, Sequences, FiniteSets, TLC

(***************************************************************************)
(* Bounds of the exploration.                                              *)
(***************************************************************************)
MaxIterations == 3
MaxCalls == 2
MaxBatch == 10
MaxTicks == 4
MaxRuns == 2
MaxEvents == 1

(***************************************************************************)
(* Program constants.                                                      *)
(***************************************************************************)
max_rate_limit_retries == 3
SESSION_TIMEOUT == 3600

None == "None"

(***************************************************************************)
(* Strings are sequences of character codes where the code compares or     *)
(* rewrites them (file names of the task bins).                            *)
(***************************************************************************)
TaskPrefix == <<116, 97, 115, 107, 95>>
TxtSuffix == <<46, 116, 120, 116>>

RECURSIVE Digits(_)
Digits(n) == IF n < 10 THEN <<48 + n>> ELSE Digits(n \div 10) \o <<48 + (n % 10)>>

TaskFileName(n) == TaskPrefix \o Digits(n) \o TxtSuffix

RECURSIVE ParseInt(_, _)
ParseInt(s, acc) == IF s = <<>> THEN acc ELSE ParseInt(Tail(s), 10 * acc + (Head(s) - 48))

TaskNumOfFile(f) ==
    ParseInt(SubSeq(f, Len(TaskPrefix) + 1, Len(f) - Len(TxtSuffix)), 0)

\* insertion by Python's ordering of strings: by the first differing
\* character, a proper prefix before the longer string
RECURSIVE InsertSorted(_, _)
InsertSorted(sorted, f) ==
    LET StrLess(a, b) ==
            LET n == IF Len(a) < Len(b) THEN Len(a) ELSE Len(b)
                diff == {i \in 1..n : a[i] # b[i]}
            IN IF diff = {} THEN Len(a) < Len(b)
               ELSE LET i == CHOOSE d \in diff : \A e \in diff : d <= e
                    IN a[i] < b[i]
    IN IF sorted = <<>> THEN <<f>>
       ELSE IF StrLess(f, Head(sorted)) THEN <<f>> \o sorted
       ELSE <<Head(sorted)>> \o InsertSorted(Tail(sorted), f)

RECURSIVE SortedFiles(_)
SortedFiles(fs) ==
    IF fs = {} THEN <<>>
    ELSE LET f == CHOOSE g \in fs : TRUE
         IN InsertSorted(SortedFiles(fs \ {f}), f)

(***************************************************************************)
(* Skills and the tools their scripts define.                              *)
(***************************************************************************)
Skills == {"planning", "answer", "coding", "finalize"}

\* The always-loaded finalize skill offers the tool whose result carries the
\* status FINAL_ANSWER_SUBMITTED that the run loop short-circuits on.
FinalizeTools == {"submit_final_answer"}

SkillTools(s) ==
    CASE s = "planning" -> {"create_subquestion_tasks"}
      [] s = "answer" -> {"check_subtask_responses"}
      [] s = "coding" -> {"grep_file"}
      [] s = "finalize" -> FinalizeTools
      [] OTHER -> {}

(***************************************************************************)
(* Tool-call argument strings are sequences of tokens: "{" and "}" are     *)
(* braces, "m" is a well-formed member list carrying the call's            *)
(* parameters, "k" is a key awaiting an object value, "5" is a JSON scalar,*)
(* "[]" a JSON array and "x" text that is not JSON.                        *)
(***************************************************************************)
RECURSIVE IsJsonObject(_)
IsJsonObject(s) ==
    /\ Len(s) >= 2
    /\ s[1] = "{"
    /\ s[Len(s)] = "}"
    /\ LET body == SubSeq(s, 2, Len(s) - 1)
       IN \/ body = <<>>
          \/ body = <<"m">>
          \/ /\ Len(body) >= 3
             /\ body[1] = "k"
             /\ IsJsonObject(Tail(body))
          \/ /\ Len(body) >= 4
             /\ body[1] = "m"
             /\ body[2] = "k"
             /\ IsJsonObject(SubSeq(body, 3, Len(body)))

json_loads(s) ==
    IF IsJsonObject(s) THEN [kind |-> "dict", members |-> (s[2] = "m")]
    ELSE IF s = <<"5">> THEN [kind |-> "scalar", members |-> FALSE]
    ELSE IF s = <<"[]">> THEN [kind |-> "list", members |-> FALSE]
    ELSE [kind |-> "JSONDecodeError", members |-> FALSE]

RECURSIVE MatchingBrace(_, _, _)
MatchingBrace(s, i, brace_count) ==
    IF i > Len(s) THEN 0
    ELSE LET c == IF s[i] = "{" THEN brace_count + 1
                  ELSE IF s[i] = "}" THEN brace_count - 1
                  ELSE brace_count
         IN IF s[i] = "}" /\ c = 0 THEN i ELSE MatchingBrace(s, i + 1, c)

ParseErrorDict == [kind |-> "dict", members |-> FALSE, parse_error |-> TRUE]

_safe_parse_json(s) ==
    LET direct == json_loads(s)
    IN IF direct.kind # "JSONDecodeError"
       THEN [kind |-> direct.kind, members |-> direct.members, parse_error |-> FALSE]
       ELSE LET first_brace ==
                    IF \E i \in 1..Len(s) : s[i] = "{"
                    THEN CHOOSE i \in 1..Len(s) :
                             s[i] = "{" /\ \A j \in 1..(i - 1) : s[j] # "{"
                    ELSE 0
                end == IF first_brace = 0 THEN 0 ELSE MatchingBrace(s, first_brace, 0)
            IN IF end = 0 THEN ParseErrorDict
               ELSE LET inner == json_loads(SubSeq(s, first_brace, end))
                    IN IF inner.kind = "JSONDecodeError" THEN ParseErrorDict
                       ELSE [kind |-> inner.kind, members |-> inner.members,
                             parse_error |-> FALSE]

ValidArgs == <<"{", "m", "}">>

(***************************************************************************)
(* A tool call as the model emits it: the function name is a sequence of   *)
(* name parts so that the "activate_" prefix can be tested and removed as  *)
(* the code does; num and skill are the parameters the member list holds.  *)
(***************************************************************************)
ToolCall(name, text, num, str) ==
    [name |-> name, arguments |-> text, num |-> num, str |-> str]

startswith_activate(function_name) ==
    Len(function_name) >= 1 /\ function_name[1] = "activate_"

RECURSIVE replace_activate(_)
replace_activate(function_name) ==
    IF function_name = <<>> THEN <<>>
    ELSE IF Head(function_name) = "activate_" THEN replace_activate(Tail(function_name))
    ELSE <<Head(function_name)>> \o replace_activate(Tail(function_name))

SkillOfName(parts) ==
    IF Len(parts) = 1 THEN parts[1] ELSE "?"

(***************************************************************************)
(* Conversation messages.                                                  *)
(***************************************************************************)
Msg(role, content, tool_call_id, calls, tasks) ==
    [role |-> role, content |-> content, tool_call_id |-> tool_call_id,
     tool_calls |-> calls, tasks |-> tasks]

PlainMsg(role, content) == Msg(role, content, 0, <<>>, <<>>)

ToolMsg(id, content) == Msg("tool", content, id, <<>>, <<>>)

IsBanner(content) == content \in {"activation:planning", "activation:answer",
                                  "activation:coding", "activation:finalize"}


VARIABLES
    skills,
    interactive,
    pc,
    iteration,
    rate_limit_retries,
    active_skill,
    active_tools,
    live_bound,
    messages,
    tool_calls,
    next_id,
    incomplete,
    completed,
    current_task,
    created,
    run_result,
    last,
    skill_md,
    skill_entries,
    verify_log,
    event_callback,
    logs_writable,
    logged,
    preserve_data,
    scratch_files,
    skill_dirs,
    enabled_skills,
    web

vars == <<skills, interactive, pc, iteration, rate_limit_retries, active_skill,
          active_tools, live_bound, messages, tool_calls, next_id,
          incomplete, completed, current_task, created, run_result, last,
          skill_md, skill_entries, verify_log, event_callback, logs_writable,
          logged, preserve_data, scratch_files, skill_dirs, enabled_skills,
          web>>

runVars == <<pc, iteration, rate_limit_retries, active_skill, active_tools,
             live_bound, messages, tool_calls, next_id, run_result>>

queueVars == <<incomplete, completed, current_task, created, scratch_files>>

configVars == <<skills, interactive, skill_md, event_callback, logs_writable,
                preserve_data, skill_dirs, enabled_skills, web>>

(***************************************************************************)
(* Task queue: the incomplete bin maps a task number to the description    *)
(* stored in its file, the completed bin maps it to the stored result.     *)
(***************************************************************************)
EmptyBin == [n \in {} |-> 0]

NoCurrentTask == [status |-> "absent", task_number |-> 0]

Remove(bin, n) == [m \in DOMAIN bin \ {n} |-> bin[m]]

Put(bin, n, v) == [m \in DOMAIN bin \cup {n} |-> IF m = n THEN v ELSE bin[m]]

RECURSIVE NextTaskNum(_, _)
NextTaskNum(bin, task_num) ==
    IF task_num \in DOMAIN bin THEN NextTaskNum(bin, task_num + 1) ELSE task_num

RECURSIVE create_subquestion_tasks(_, _, _)
create_subquestion_tasks(bin, descriptions, made) ==
    IF descriptions = <<>> THEN [bin |-> bin, created_tasks |-> made]
    ELSE LET task_num == NextTaskNum(bin, 1)
         IN create_subquestion_tasks(Put(bin, task_num, Head(descriptions)),
                                     Tail(descriptions), Append(made, task_num))

InitCurrentTask(cur, created_tasks) ==
    IF created_tasks # <<>> /\ created_tasks[1] = 1
    THEN [status |-> "active", task_number |-> 1]
    ELSE cur

IncompleteFiles(bin) == {TaskFileName(n) : n \in DOMAIN bin}

\* an advance that clears the marker whatever is left in the bin
AutoAdvance_ClearsMarker(bin) == [status |-> "none", task_number |-> 0]

AutoAdvance(bin) ==
    LET remaining == SortedFiles(IncompleteFiles(bin))
    IN IF remaining # <<>>
       THEN [status |-> "active", task_number |-> TaskNumOfFile(remaining[1])]
       ELSE [status |-> "none", task_number |-> 0]

TaskFileExists(bin, task_number) == TaskFileName(task_number) \in IncompleteFiles(bin)

\* the result file written before the task file is looked up
complete_task_WritesBeforeCheck(bin, done, cur, task_number, result_text) ==
    IF TaskFileExists(bin, task_number)
    THEN [found |-> TRUE,
          completed |-> Put(done, task_number, result_text),
          incomplete |-> Remove(bin, task_number),
          current_task |-> AutoAdvance(Remove(bin, task_number))]
    ELSE [found |-> FALSE, completed |-> Put(done, task_number, result_text),
          incomplete |-> bin, current_task |-> cur]

complete_task(bin, done, cur, task_number, result_text) ==
    IF TaskFileExists(bin, task_number)
    THEN [found |-> TRUE,
          completed |-> Put(done, task_number, result_text),
          incomplete |-> Remove(bin, task_number),
          current_task |-> AutoAdvance(Remove(bin, task_number))]
    ELSE [found |-> FALSE, completed |-> done, incomplete |-> bin, current_task |-> cur]

\* the listing with a file-name filter that matches no task file
incomplete_tasks_WrongSuffix(bin) ==
    SortedFiles({f \in IncompleteFiles(bin) : f[Len(f)] = 110})

\* the listing that gates completion in the no-tool-call branch
incomplete_tasks(bin) == SortedFiles(IncompleteFiles(bin))

_get_current_task_info(cur) ==
    IF cur.status = "active" THEN <<cur.task_number>> ELSE <<>>

(***************************************************************************)
(* The scratch directory beside the two bins and the current-task file:    *)
(* the data sub-directory and the pages that the web tools save.           *)
(***************************************************************************)
ScratchPaths == {"data", "url_pages"}

\* the directory removed and rebuilt without the restore of the backup
_initialize_scratch_directory_NoRestore(files, preserve) == {}

_initialize_scratch_directory(files, preserve) ==
    LET data_backup == IF preserve /\ "data" \in files THEN {"data"} ELSE {}
    IN data_backup

(***************************************************************************)
(* Skill activation.                                                       *)
(***************************************************************************)
\* inspect.getmembers lists the functions of tools.py once each, by name
RECURSIVE ToolList(_)
ToolList(names) ==
    IF names = {} THEN <<>>
    ELSE LET first == CHOOSE n \in names : TRUE
         IN <<first>> \o ToolList(names \ {first})

\* a loader that knows no tools
get_skill_tools_NoTools(loaded, skill_name) == <<>>

get_skill_tools(loaded, skill_name) ==
    IF skill_name \in loaded THEN ToolList(SkillTools(skill_name)) ELSE <<>>

\* the tools that are offered whatever skill is active
global_tools == <<"list_skills", "skill_switch", "complete_task">>

\* one activation tool per loaded skill
skill_discovery_tools(loaded) == ToolList({"activate_" \o s : s \in loaded})

\* the tool list of the discovery phase, whatever skill is active
tools_DiscoveryOnly(skill, skill_tools, loaded) ==
    skill_discovery_tools(loaded) \o global_tools

\* the tool list without the global tools
tools_WithoutGlobals(skill, skill_tools, loaded) ==
    IF skill # None THEN skill_tools ELSE skill_discovery_tools(loaded)

\* the tool list handed to the model call of an iteration
tools(skill, skill_tools, loaded) ==
    IF skill # None
    THEN skill_tools \o global_tools
    ELSE skill_discovery_tools(loaded) \o global_tools

(***************************************************************************)
(* Loading of the skills directory.  A manifest is the SKILL.md of one     *)
(* sub-directory: whether it starts with a front-matter block and which of *)
(* the two required fields the block holds.  The whitelist of enabled     *)
(* skills is a set; the empty set stands for None and for the empty list,  *)
(* which the code treats alike.                                            *)
(***************************************************************************)
Manifests ==
    {m \in [frontmatter : BOOLEAN, has_name : BOOLEAN, has_description : BOOLEAN] :
        ~m.frontmatter => (~m.has_name /\ ~m.has_description)}

ValidManifest == [frontmatter |-> TRUE, has_name |-> TRUE, has_description |-> TRUE]

parse_skill_md(manifest) ==
    IF ~manifest.frontmatter THEN "ValueError"
    ELSE IF ~manifest.has_name \/ ~manifest.has_description THEN "ValueError"
    ELSE "ok"

\* the loop left at the first manifest that does not parse
RECURSIVE load_skills_StopsAtFirstError(_, _, _)
RECURSIVE load_skills(_, _, _)
load_skills_StopsAtFirstError(dirs, enabled, loaded) ==
    IF dirs = <<>> THEN loaded
    ELSE LET d == Head(dirs)
         IN IF parse_skill_md(d.manifest) # "ok" THEN loaded
            ELSE IF enabled # {} /\ d.name \notin enabled /\ d.name # "finalize"
            THEN load_skills_StopsAtFirstError(Tail(dirs), enabled, loaded)
            ELSE load_skills_StopsAtFirstError(Tail(dirs), enabled, loaded \cup {d.name})

load_skills(dirs, enabled, loaded) ==
    IF dirs = <<>> THEN loaded
    ELSE LET d == Head(dirs)
         IN IF parse_skill_md(d.manifest) # "ok"
            THEN load_skills(Tail(dirs), enabled, loaded)
            ELSE IF enabled # {} /\ d.name \notin enabled /\ d.name # "finalize"
            THEN load_skills(Tail(dirs), enabled, loaded)
            ELSE load_skills(Tail(dirs), enabled, loaded \cup {d.name})

\* a skills directory in which every manifest of the given skills is valid
ValidDirs(names) ==
    [i \in 1..Cardinality(names) |-> [name |-> ToolList(names)[i], manifest |-> ValidManifest]]

\* SkillLoader.skills[name]: the instruction document is read on first use
NoEntry == [content_loaded |-> FALSE, full_content |-> None]

SkillMdVersions == {"v1", "v2"}

\* the document read from disk on every activation
activate_skill_ReloadsEveryTime(entries, disk, skill_name) ==
    IF skill_name \notin DOMAIN entries THEN entries
    ELSE [entries EXCEPT ![skill_name] = [content_loaded |-> TRUE, full_content |-> disk]]

activate_skill(entries, disk, skill_name) ==
    IF skill_name \notin DOMAIN entries THEN entries
    ELSE IF ~entries[skill_name].content_loaded
    THEN [entries EXCEPT ![skill_name] = [content_loaded |-> TRUE, full_content |-> disk]]
    ELSE entries

ActivationContent(skill_name) == "activation:" \o skill_name

(***************************************************************************)
(* _log_message: the entry is appended to the conversation log, then the   *)
(* registered event callback is called with it.                            *)
(***************************************************************************)
\* the body without its two exception handlers
_log_message_Unguarded(callback, writable) ==
    [written |-> writable,
     invoked |-> writable /\ callback # None,
     raised |-> ~writable \/ callback = "raises"]

_log_message(callback, writable) ==
    [written |-> writable,
     invoked |-> writable /\ callback # None,
     raised |-> FALSE]

\* what the n calls of _log_message made by one step did; an entry that
\* json.dumps cannot serialize is not written, like one the file refuses
LogEntriesWith(n, serializable) ==
    LET r == _log_message(event_callback, logs_writable /\ serializable)
    IN [calls |-> n,
        written |-> IF r.written THEN n ELSE 0,
        invoked |-> IF r.invoked THEN n ELSE 0,
        raised |-> n > 0 /\ r.raised,
        entries |-> <<>>]

LogEntries(n) == LogEntriesWith(n, TRUE)

(***************************************************************************)
(* Finalization of a candidate answer.                                     *)
(***************************************************************************)
Answers == {"answer_plain", "answer_cited"}

\* the cited answer holds one URL, every other text holds none
HasUrl(text) == text = "answer_cited"

\* what the world holds about the cited URL: fetched content in the scratch
\* cache, whether that content supports the claim, whether the URL answers
UrlStates(text) ==
    IF HasUrl(text)
    THEN [cached : BOOLEAN, supports : BOOLEAN, reachable : BOOLEAN]
    ELSE {[cached |-> FALSE, supports |-> FALSE, reachable |-> FALSE]}

\* the verify_links.py found beside the finalize skill's SKILL.md, if any
VerifyScripts == {"missing", "verify", "answer"}

\* skills/verify/scripts/verify_links.py: every URL is fetched
verify_execute(response_text, url) ==
    IF ~HasUrl(response_text)
    THEN [status |-> "no_links", unverifiable |-> FALSE, should_research_again |-> FALSE]
    ELSE IF ~url.reachable
    THEN [status |-> "invalid_links_found", unverifiable |-> FALSE,
          should_research_again |-> TRUE]
    ELSE [status |-> "all_valid", unverifiable |-> FALSE, should_research_again |-> FALSE]

\* skills/answer/scripts/verify_links.py: every URL is looked up in the cache
answer_execute(response_text, url) ==
    IF ~HasUrl(response_text)
    THEN [status |-> "no_links", unverifiable |-> FALSE, should_research_again |-> FALSE]
    ELSE IF ~url.cached
    THEN [status |-> "unsupported_citations", unverifiable |-> TRUE,
          should_research_again |-> TRUE]
    ELSE IF ~url.supports
    THEN [status |-> "unsupported_citations", unverifiable |-> FALSE,
          should_research_again |-> TRUE]
    ELSE [status |-> "all_verified", unverifiable |-> FALSE,
          should_research_again |-> FALSE]

_auto_verify_links(loaded, script, response, url) ==
    IF "finalize" \notin loaded \/ script = "missing"
    THEN [response |-> response, should_retry |-> FALSE, unverifiable |-> FALSE]
    ELSE LET result == IF script = "verify" THEN verify_execute(response, url)
                       ELSE answer_execute(response, url)
         IN IF result.status = "invalid_links_found"
            THEN [response |-> "links_removed",
                  should_retry |-> result.should_research_again,
                  unverifiable |-> result.unverifiable]
            ELSE [response |-> response, should_retry |-> FALSE,
                  unverifiable |-> result.unverifiable]

NoResult == [kind |-> "none", text |-> "", report |-> FALSE]

\* app.py: the session map, the session state objects, the time, the runs
\* accepted so far, and the run whose wrapper is the agent's event callback
NoWeb == [sessions |-> [s \in {} |-> 0], states |-> <<>>, clock |-> 0, runs |-> <<>>,
          callback |-> 0]

ErrorResult(e) == [kind |-> "error", text |-> e, report |-> FALSE]

SkillConfigs == {Skills, Skills \ {"planning"}, Skills \ {"answer"},
                 Skills \ {"finalize"}}

Init ==
    /\ skills \in SkillConfigs
    /\ interactive \in BOOLEAN
    /\ pc = "idle"
    /\ iteration = 0
    /\ rate_limit_retries = 0
    /\ active_skill = None
    /\ active_tools = <<>>
    /\ live_bound = FALSE
    /\ messages = <<PlainMsg("system", "system_message")>>
    /\ tool_calls = <<>>
    /\ next_id = 1
    /\ incomplete = EmptyBin
    /\ completed = EmptyBin
    /\ current_task = NoCurrentTask
    /\ created = <<>>
    /\ run_result = NoResult
    /\ last = [op |-> "init", num |-> 0, calls |-> <<>>]
    /\ skill_md = "v1"
    /\ skill_entries = [s \in skills |-> NoEntry]
    /\ verify_log = <<>>
    /\ event_callback = None
    /\ logs_writable = TRUE
    /\ logged = LogEntries(0)
    /\ preserve_data = FALSE
    /\ scratch_files = {}
    /\ skill_dirs = ValidDirs(skills)
    /\ enabled_skills = {}
    /\ web = NoWeb

(***************************************************************************)
(* run(): set-up before the loop.                                          *)
(***************************************************************************)
StartRun ==
    /\ pc = "idle"
    /\ incomplete' = EmptyBin
    /\ completed' = EmptyBin
    /\ current_task' = NoCurrentTask
    /\ scratch_files' = _initialize_scratch_directory(scratch_files, preserve_data)
    /\ created' = <<>>
    /\ iteration' = 0
    /\ rate_limit_retries' = 0
    /\ tool_calls' = <<>>
    /\ live_bound' = FALSE
    /\ active_skill' = "planning"
    /\ active_tools' = get_skill_tools(skills, "planning")
    /\ IF messages = <<>>
       THEN /\ messages' = messages
            /\ pc' = "raised"
            /\ run_result' = [kind |-> "raised", text |-> "IndexError", report |-> FALSE]
            /\ skill_entries' = skill_entries
       ELSE IF "planning" \in skills
       THEN /\ messages' = <<messages[1], PlainMsg("user", "user_input"),
                             Msg("assistant", ActivationContent("planning"), 0, <<>>,
                                 _get_current_task_info(NoCurrentTask))>>
            /\ pc' = "call"
            /\ run_result' = NoResult
            /\ skill_entries' = activate_skill(skill_entries, skill_md, "planning")
       ELSE /\ messages' = <<messages[1], PlainMsg("user", "user_input")>>
            /\ pc' = "raised"
            /\ run_result' = [kind |-> "raised", text |-> "TypeError", report |-> FALSE]
            /\ skill_entries' = skill_entries
    /\ verify_log' = <<>>
    /\ next_id' = 1
    /\ last' = [op |-> "start", num |-> 0, calls |-> <<>>]
    /\ logged' = LogEntries(IF messages = <<>> THEN 0
                            ELSE IF "planning" \in skills THEN 2 ELSE 1)
    /\ UNCHANGED configVars


(***************************************************************************)
(* _finalize_response: link verification, then packaging.  The outcome of  *)
(* the verification and of the report upload are inputs.                   *)
(***************************************************************************)
RetryMsg == PlainMsg("user", "invalid_links_retry")

\* a packaging step that loses the verified text
_finalize_response_DropsAnswer(loaded, script, response_text, url, catbox_url) ==
    LET v == _auto_verify_links(loaded, script, response_text, url)
    IN [should_retry |-> v.should_retry, text |-> "", report |-> FALSE,
        unverifiable |-> v.unverifiable]

\* report |-> TRUE: the upload succeeded and the report URL line was appended;
\* unverifiable |-> TRUE: the verification result lists the URL as not cached
_finalize_response(loaded, script, response_text, url, catbox_url) ==
    LET v == _auto_verify_links(loaded, script, response_text, url)
    IN IF v.should_retry
       THEN [should_retry |-> TRUE, text |-> "", report |-> FALSE,
             unverifiable |-> v.unverifiable]
       ELSE [should_retry |-> FALSE, text |-> v.response, report |-> catbox_url,
             unverifiable |-> v.unverifiable]

FinalizeOutcomes(loaded, answer) ==
    {_finalize_response(loaded, script, answer, url, up) :
        script \in VerifyScripts, url \in UrlStates(answer), up \in BOOLEAN}

\* one entry per call of _finalize_response: where the candidate came from,
\* the history index of the message that holds it (0: none), and the outcome
LogEntry(source, index, candidate, out) ==
    [source |-> source, index |-> index, candidate |-> candidate,
     unverifiable |-> out.unverifiable, should_retry |-> out.should_retry]

(***************************************************************************)
(* One pass of the while loop whose model call raises.                     *)
(***************************************************************************)
ApiErrors == {"rate_limit", "other"}

\* a test that lets every rate-limited call be retried
within_retry_budget_Unlimited(retries) == TRUE

\* the test made after the retry counter was incremented
within_retry_budget(retries) == retries <= max_rate_limit_retries

ModelCallFails(api_error) ==
    /\ pc = "call"
    /\ iteration < MaxIterations
    /\ IF interactive
       THEN /\ live_bound' = TRUE
            /\ IF api_error = "rate_limit"
               THEN /\ rate_limit_retries' = rate_limit_retries + 1
                    /\ IF within_retry_budget(rate_limit_retries + 1)
                       THEN /\ iteration' = (iteration + 1) - 1
                            /\ pc' = "call"
                            /\ run_result' = run_result
                       ELSE /\ iteration' = iteration + 1
                            /\ pc' = "returned"
                            /\ run_result' = ErrorResult(api_error)
               ELSE /\ rate_limit_retries' = rate_limit_retries
                    /\ iteration' = iteration + 1
                    /\ pc' = "returned"
                    /\ run_result' = ErrorResult(api_error)
       ELSE /\ live_bound' = live_bound
            /\ rate_limit_retries' = rate_limit_retries
            /\ iteration' = iteration + 1
            /\ pc' = "returned"
            /\ run_result' = ErrorResult(api_error)
    /\ last' = [op |-> "api_error:" \o api_error, num |-> iteration + 1, calls |-> <<>>]
    /\ logged' = LogEntries(0)
    /\ UNCHANGED <<configVars, queueVars, skill_entries, verify_log, active_skill, active_tools, messages,
                   tool_calls, next_id>>

\* the direct call of the non-interactive branch: an exception of the call
\* leaves the loop through the handler around the iteration
direct_call_failure(it, retries, api_error) ==
    [iteration |-> it + 1, rate_limit_retries |-> retries, pc |-> "returned",
     run_result |-> ErrorResult(api_error)]

(***************************************************************************)
(* One pass of the while loop whose model response has no tool calls.      *)
(***************************************************************************)
RECURSIVE TaskNumbers(_)
TaskNumbers(files) ==
    IF files = <<>> THEN <<>>
    ELSE <<TaskNumOfFile(Head(files))>> \o TaskNumbers(Tail(files))

TextContents == {None} \cup Answers

ModelReturnsText(content) ==
    /\ pc = "call"
    /\ iteration < MaxIterations
    /\ iteration' = iteration + 1
    /\ live_bound' = (live_bound \/ interactive)
    /\ LET files == incomplete_tasks(incomplete)
           final_response == IF content # None THEN content ELSE "completed_default"
           final_msg == PlainMsg("assistant", final_response)
           ReminderMsg == Msg("user", "incomplete_tasks_reminder", 0, <<>>,
                              TaskNumbers(files))
       IN IF files # <<>>
          THEN /\ messages' = Append(messages, ReminderMsg)
               /\ pc' = "call"
               /\ last' = [op |-> "text_blocked", num |-> iteration + 1, calls |-> <<>>]
               /\ UNCHANGED <<active_skill, active_tools, run_result, skill_entries,
                              verify_log>>
          ELSE IF active_skill = "answer" /\ content = None
          THEN /\ pc' = "call"
               /\ last' = [op |-> "text_wait", num |-> iteration + 1, calls |-> <<>>]
               /\ UNCHANGED <<messages, active_skill, active_tools, run_result,
                              skill_entries, verify_log>>
          ELSE IF active_skill # "answer" /\ "answer" \in skills
          THEN /\ active_skill' = "answer"
               /\ active_tools' = get_skill_tools(skills, "answer")
               /\ skill_entries' = activate_skill(skill_entries, skill_md, "answer")
               /\ verify_log' = verify_log
               /\ messages' = Append(messages,
                                     PlainMsg("user", ActivationContent("answer")))
               /\ pc' = "call"
               /\ last' = [op |-> "text_force_answer", num |-> iteration + 1,
                           calls |-> <<>>]
               /\ UNCHANGED run_result
          ELSE /\ UNCHANGED <<active_skill, active_tools, skill_entries>>
               /\ IF ~live_bound'
                  THEN /\ messages' = Append(messages, final_msg)
                       /\ verify_log' = verify_log
                       /\ pc' = "returned"
                       /\ run_result' = ErrorResult("UnboundLocalError")
                       /\ last' = [op |-> "text_unbound_live", num |-> iteration + 1,
                                   calls |-> <<>>]
                  ELSE \E out \in FinalizeOutcomes(skills, final_response) :
                          /\ verify_log' = Append(verify_log,
                                LogEntry("text", Len(messages) + 1, final_response, out))
                          /\ IF out.should_retry
                             THEN /\ messages' = messages \o <<final_msg, RetryMsg>>
                                  /\ pc' = "call"
                                  /\ run_result' = run_result
                                  /\ last' = [op |-> "text_retry", num |-> iteration + 1,
                                              calls |-> <<>>]
                             ELSE /\ messages' = Append(messages, final_msg)
                                  /\ pc' = "returned"
                                  /\ run_result' = [kind |-> "answer", text |-> out.text,
                                                    report |-> out.report]
                                  /\ last' = [op |-> "text_final", num |-> iteration + 1,
                                              calls |-> <<>>]
    /\ logged' = LogEntries(IF last'.op \in {"text_force_answer", "text_final"} THEN 2 ELSE 1)
    /\ UNCHANGED <<configVars, queueVars, rate_limit_retries, tool_calls, next_id>>

(***************************************************************************)
(* One pass of the while loop whose model response carries tool calls.     *)
(***************************************************************************)
CallSeqs(menu) == UNION {[1..n -> menu] : n \in 1..MaxCalls}

\* a scan that looks at the first call of the response only
FirstBadArgs_FirstCallOnly(calls) ==
    LET p == _safe_parse_json(calls[1].arguments)
    IN IF p.kind = "scalar" \/ p.parse_error THEN 1 ELSE 0

\* index of the first call on which the scan for parse errors stops, 0 if none
FirstBadArgs(calls) ==
    LET Bad(i) == LET p == _safe_parse_json(calls[i].arguments)
                  IN p.kind = "scalar" \/ p.parse_error
    IN IF \E i \in 1..Len(calls) : Bad(i)
       THEN CHOOSE i \in 1..Len(calls) : Bad(i) /\ \A j \in 1..(i - 1) : ~Bad(j)
       ELSE 0

\* the placeholder without the corrective user message
ParseErrorMsgs_PlaceholderOnly == <<PlainMsg("assistant", "invalid_json_placeholder")>>

ParseErrorMsgs == <<PlainMsg("assistant", "invalid_json_placeholder"),
                    PlainMsg("user", "malformed_json_retry")>>

ModelReturnsToolCalls(menu) ==
    /\ pc = "call"
    /\ iteration < MaxIterations
    /\ iteration' = iteration + 1
    /\ live_bound' = (live_bound \/ interactive)
    /\ \E cs \in CallSeqs(menu) :
         LET calls == [i \in 1..Len(cs) |->
                          [id |-> next_id + i - 1, name |-> cs[i].name,
                           arguments |-> cs[i].arguments, num |-> cs[i].num,
                           str |-> cs[i].str]]
             HistoryCalls == [i \in 1..Len(calls) |->
                                 [id |-> calls[i].id, name |-> calls[i].name]]
             bad == FirstBadArgs(calls)
         IN /\ next_id' = next_id + Len(calls)
            /\ IF bad # 0 /\ _safe_parse_json(calls[bad].arguments).kind = "scalar"
               THEN /\ pc' = "returned"
                    /\ run_result' = ErrorResult("TypeError")
                    /\ last' = [op |-> "args_type_error", num |-> iteration + 1, calls |-> calls]
                    /\ UNCHANGED <<messages, tool_calls>>
               ELSE IF bad # 0
               THEN /\ messages' = messages \o ParseErrorMsgs
                    /\ pc' = "call"
                    /\ last' = [op |-> "parse_error", num |-> iteration + 1, calls |-> calls]
                    /\ UNCHANGED <<run_result, tool_calls>>
               ELSE /\ messages' = Append(messages,
                                          Msg("assistant", None, 0, HistoryCalls, <<>>))
                    /\ tool_calls' = calls
                    /\ pc' = "tools"
                    /\ last' = [op |-> "tool_calls", num |-> iteration + 1, calls |-> calls]
                    /\ UNCHANGED run_result
    /\ logged' = LogEntries(1)
    /\ UNCHANGED <<configVars, queueVars, skill_entries, verify_log, rate_limit_retries,
                   active_skill, active_tools>>


(***************************************************************************)
(* History editing by tools (utils.remove_last_tool_exchange, grep_file).  *)
(***************************************************************************)
HasCallNamed(msg, tool_name) ==
    \E i \in 1..Len(msg.tool_calls) : msg.tool_calls[i].name = <<tool_name>>

DeleteAt(seq, i) == SubSeq(seq, 1, i - 1) \o SubSeq(seq, i + 1, Len(seq))

RECURSIVE ScanExchange(_, _, _, _, _)
ScanExchange(history, tool_name, i, assistant_idx, tool_idx) ==
    IF i = 0 THEN history
    ELSE LET msg == history[i]
         IN IF msg.role = "tool" /\ tool_idx = 0
            THEN ScanExchange(history, tool_name, i - 1, assistant_idx, i)
            ELSE IF msg.role = "assistant" /\ msg.tool_calls # <<>> /\ assistant_idx = 0
            THEN LET a == IF HasCallNamed(msg, tool_name) THEN i ELSE 0
                 IN IF a # 0 /\ tool_idx # 0
                    THEN DeleteAt(DeleteAt(history, tool_idx), a)
                    ELSE ScanExchange(history, tool_name, i - 1, a, tool_idx)
            ELSE ScanExchange(history, tool_name, i - 1, assistant_idx, tool_idx)

\* a removal that takes the last tool response and leaves the assistant message
remove_last_tool_exchange_ResponseOnly(history, tool_name) ==
    LET idx == {i \in 1..Len(history) : history[i].role = "tool"}
    IN IF idx = {} THEN history
       ELSE DeleteAt(history, CHOOSE i \in idx : \A j \in idx : j <= i)

remove_last_tool_exchange(history, tool_name) ==
    IF history = <<>> THEN history
    ELSE ScanExchange(history, tool_name, Len(history), 0, 0)

grep_file_history(history) ==
    LET idx == {k \in 1..Len(history) :
                   history[k].role = "assistant" /\ history[k].tool_calls # <<>>}
        i == IF idx = {} THEN 0 ELSE CHOOSE k \in idx : \A j \in idx : j <= k
    IN IF i # 0 /\ HasCallNamed(history[i], "grep_file")
       THEN remove_last_tool_exchange(history, "grep_file")
       ELSE history

(***************************************************************************)
(* Execution of the tool calls of a response, one call per step.           *)
(***************************************************************************)
CurrentCall == tool_calls[1]

function_name == CurrentCall.name

function_args == _safe_parse_json(CurrentCall.arguments)

AfterCall == IF Tail(tool_calls) = <<>> THEN "call" ELSE "tools"

ActivateCall ==
    /\ pc = "tools"
    /\ startswith_activate(function_name)
    /\ LET skill_name == SkillOfName(replace_activate(function_name))
       IN IF skill_name \in skills
          THEN /\ active_skill' = skill_name
               /\ active_tools' = get_skill_tools(skills, skill_name)
               /\ skill_entries' = activate_skill(skill_entries, skill_md, skill_name)
               /\ messages' = Append(messages,
                     Msg("tool", ActivationContent(skill_name), CurrentCall.id, <<>>,
                         _get_current_task_info(current_task)))
               /\ last' = [op |-> "activated", num |-> CurrentCall.id, calls |-> <<>>]
          ELSE /\ messages' = Append(messages, ToolMsg(CurrentCall.id, "error:skill_not_found"))
               /\ last' = [op |-> "activation_failed", num |-> CurrentCall.id, calls |-> <<>>]
               /\ UNCHANGED <<active_skill, active_tools, skill_entries>>
    /\ tool_calls' = Tail(tool_calls)
    /\ pc' = AfterCall
    /\ logged' = LogEntries(1)
    /\ UNCHANGED <<configVars, queueVars, verify_log, iteration, rate_limit_retries,
                   live_bound, next_id, run_result>>

ListSkillsCall ==
    /\ pc = "tools"
    /\ function_name = <<"list_skills">>
    /\ messages' = Append(messages, ToolMsg(CurrentCall.id, "skills_list"))
    /\ tool_calls' = Tail(tool_calls)
    /\ pc' = AfterCall
    /\ last' = [op |-> "list_skills", num |-> CurrentCall.id, calls |-> <<>>]
    /\ logged' = LogEntries(1)
    /\ UNCHANGED <<configVars, queueVars, skill_entries, verify_log, iteration,
                   rate_limit_retries, live_bound, next_id, run_result, active_skill,
                   active_tools>>

\* a switch that announces the new skill before it retires the old one
skill_switch_entries_ActivationFirst(old_skill, new_skill_name) ==
    <<[type |-> "skill_activated", skill_name |-> new_skill_name]>>
    \o (IF old_skill # None
        THEN <<[type |-> "skill_deactivated", skill_name |-> old_skill]>>
        ELSE <<>>)
    \o <<[type |-> "tool_execution", skill_name |-> new_skill_name]>>

\* the log entries of a successful skill_switch, in the order of the calls
skill_switch_entries(old_skill, new_skill_name) ==
    (IF old_skill # None
     THEN <<[type |-> "skill_deactivated", skill_name |-> old_skill]>>
     ELSE <<>>)
    \o <<[type |-> "skill_activated", skill_name |-> new_skill_name],
         [type |-> "tool_execution", skill_name |-> new_skill_name]>>

SkillSwitchCall ==
    /\ pc = "tools"
    /\ function_name = <<"skill_switch">>
    /\ IF function_args.kind # "dict"
       THEN /\ pc' = "returned"
            /\ run_result' = ErrorResult("AttributeError")
            /\ last' = [op |-> "switch_crash", num |-> CurrentCall.id, calls |-> <<>>]
            /\ UNCHANGED <<messages, tool_calls, active_skill, active_tools, skill_entries>>
       ELSE LET new_skill_name == IF function_args.members THEN CurrentCall.str ELSE None
            IN /\ tool_calls' = Tail(tool_calls)
               /\ pc' = AfterCall
               /\ UNCHANGED run_result
               /\ IF new_skill_name = None \/ new_skill_name = ""
                  THEN /\ messages' = Append(messages,
                                             ToolMsg(CurrentCall.id, "error:skill_name_required"))
                       /\ last' = [op |-> "switch_missing", num |-> CurrentCall.id, calls |-> <<>>]
                       /\ UNCHANGED <<active_skill, active_tools, skill_entries>>
                  ELSE IF new_skill_name \notin skills
                  THEN /\ messages' = Append(messages,
                                             ToolMsg(CurrentCall.id, "error:skill_not_found"))
                       /\ last' = [op |-> "switch_unknown", num |-> CurrentCall.id, calls |-> <<>>]
                       /\ UNCHANGED <<active_skill, active_tools, skill_entries>>
                  ELSE /\ active_skill' = new_skill_name
                       /\ active_tools' = get_skill_tools(skills, new_skill_name)
                       /\ skill_entries' = activate_skill(skill_entries, skill_md,
                                                          new_skill_name)
                       /\ messages' = Append(messages,
                             Msg("tool", "switched:" \o new_skill_name, CurrentCall.id, <<>>,
                                 _get_current_task_info(current_task)))
                       /\ last' = [op |-> "switched", num |-> CurrentCall.id, calls |-> <<>>]
    /\ LET entries == CASE last'.op = "switched" ->
                                skill_switch_entries(active_skill, CurrentCall.str)
                          [] last'.op = "switch_unknown" ->
                                <<[type |-> "tool_execution", skill_name |-> CurrentCall.str]>>
                          [] OTHER -> <<>>
       IN logged' = [LogEntries(Len(entries)) EXCEPT !.entries = entries]
    /\ UNCHANGED <<configVars, queueVars, verify_log, iteration, rate_limit_retries,
                   live_bound, next_id>>

CompleteTaskCall ==
    /\ pc = "tools"
    /\ function_name = <<"complete_task">>
    /\ IF function_args.kind # "dict"
       THEN /\ pc' = "returned"
            /\ run_result' = ErrorResult("AttributeError")
            /\ last' = [op |-> "complete_crash", num |-> CurrentCall.id, calls |-> <<>>]
            /\ UNCHANGED <<messages, tool_calls, active_skill, active_tools, queueVars,
                           skill_entries>>
       ELSE LET task_number == IF function_args.members THEN CurrentCall.num ELSE 0
                result_text == IF function_args.members THEN CurrentCall.str ELSE ""
            IN /\ tool_calls' = Tail(tool_calls)
               /\ pc' = AfterCall
               /\ UNCHANGED <<run_result, created, scratch_files>>
               /\ LET q == complete_task(incomplete, completed, current_task,
                                         task_number, result_text)
                  IN /\ completed' = q.completed
                     /\ incomplete' = q.incomplete
                     /\ current_task' = q.current_task
                     /\ IF q.found
                        THEN /\ IF q.current_task.status = "none" /\ "answer" \in skills
                                THEN /\ active_skill' = "answer"
                                     /\ active_tools' = get_skill_tools(skills, "answer")
                                     /\ skill_entries' =
                                            activate_skill(skill_entries, skill_md, "answer")
                                ELSE UNCHANGED <<active_skill, active_tools, skill_entries>>
                             /\ messages' = Append(messages,
                                   Msg("tool", "status:success", CurrentCall.id, <<>>,
                                       _get_current_task_info(q.current_task)))
                             /\ last' = [op |-> "task_completed", num |-> task_number,
                                         calls |-> <<>>]
                        ELSE /\ messages' = Append(messages,
                                   ToolMsg(CurrentCall.id, "status:error:task_not_found"))
                             /\ last' = [op |-> "task_not_found", num |-> task_number,
                                         calls |-> <<>>]
                             /\ UNCHANGED <<active_skill, active_tools, skill_entries>>
    /\ logged' = LogEntries(CASE last'.op = "task_completed" ->
                                     IF current_task'.status = "active" THEN 3
                                     ELSE IF "answer" \in skills THEN 3 ELSE 2
                               [] last'.op = "task_not_found" -> 1
                               [] OTHER -> 0)
    /\ UNCHANGED <<configVars, verify_log, iteration, rate_limit_retries, live_bound,
                   next_id>>


(***************************************************************************)
(* SkillLoader.execute_skill_script: where a tool name resolves.           *)
(***************************************************************************)
GlobalToolNames == {<<"list_skills">>, <<"skill_switch">>, <<"complete_task">>}

\* the names hasattr finds in a skill's tools.py: its tools and what it
\* imports (the coding tools import get_scratch_dir from utils)
ModuleNames(s) ==
    SkillTools(s) \cup (IF s = "coding" THEN {"get_scratch_dir"} ELSE {})

ResolveTool(loaded, skill_name, tool) ==
    IF skill_name \notin loaded THEN "skill_not_found"
    ELSE IF tool \in ModuleNames(skill_name) THEN "own"
    ELSE IF \E s \in loaded \ {skill_name} : tool \in ModuleNames(s) THEN "other"
    ELSE "script_not_found"

Descriptions(k, first) == [i \in 1..k |-> first + i - 1]

SkillScriptCall ==
    /\ pc = "tools"
    /\ ~startswith_activate(function_name)
    /\ function_name \notin GlobalToolNames
    /\ IF active_skill = None
       THEN /\ tool_calls' = Tail(tool_calls)
            /\ pc' = AfterCall
            /\ last' = [op |-> "no_active_skill", num |-> CurrentCall.id, calls |-> <<>>]
            /\ UNCHANGED <<messages, queueVars, live_bound, run_result, verify_log>>
       ELSE
         LET script_name == SkillOfName(function_name)
             where == ResolveTool(skills, active_skill, script_name)
             found == where \in {"own", "other"}
             has_params == function_args.kind = "dict" /\ function_args.members
             note == IF where = "other" THEN "+note" ELSE ""
             k == CurrentCall.num
             made == create_subquestion_tasks(incomplete, Descriptions(k, Len(created) + 1), <<>>)
             creates == found /\ script_name = "create_subquestion_tasks" /\ has_params /\ k > 0
             greps == found /\ script_name = "grep_file" /\ has_params
             submits == found /\ script_name \in FinalizeTools /\ has_params
             \* get_scratch_dir() returns a Path: wrapped as {result: Path}, which
             \* json.dumps refuses when the tool message is built
             unserializable == found /\ script_name = "get_scratch_dir" /\ ~has_params
             content ==
                 IF ~found THEN "error:" \o where
                 ELSE IF creates THEN "result:tasks_created" \o note
                 ELSE IF script_name = "create_subquestion_tasks" /\ has_params
                 THEN "result:no_descriptions" \o note
                 ELSE IF greps THEN "result:grep" \o note
                 ELSE IF submits THEN "status:FINAL_ANSWER_SUBMITTED" \o note
                 ELSE IF script_name = "check_subtask_responses" /\ ~has_params
                 THEN "result:subtask_responses" \o note
                 ELSE "error:execution_failed"
             history == IF greps THEN grep_file_history(messages) ELSE messages
             answered == Append(history, ToolMsg(CurrentCall.id, content))
         IN /\ live_bound' = TRUE
            /\ IF creates
               THEN /\ incomplete' = made.bin
                    /\ created' = created \o made.created_tasks
                    /\ current_task' = InitCurrentTask(current_task, made.created_tasks)
                    /\ UNCHANGED <<completed, scratch_files>>
               ELSE UNCHANGED queueVars
            /\ IF unserializable
               THEN /\ messages' = messages
                    /\ verify_log' = verify_log
                    /\ tool_calls' = tool_calls
                    /\ pc' = "returned"
                    /\ run_result' = ErrorResult("TypeError")
                    /\ last' = [op |-> "script_crash", num |-> CurrentCall.id, calls |-> <<>>]
               ELSE IF submits
               THEN \E out \in FinalizeOutcomes(skills, CurrentCall.str) :
                    /\ verify_log' = Append(verify_log,
                                            LogEntry("submit", 0, CurrentCall.str, out))
                    /\ IF out.should_retry
                      THEN /\ messages' = Append(answered, RetryMsg)
                           /\ tool_calls' = Tail(tool_calls)
                           /\ pc' = AfterCall
                           /\ run_result' = run_result
                           /\ last' = [op |-> "submit_retry", num |-> CurrentCall.id, calls |-> <<>>]
                      ELSE /\ messages' = answered
                           /\ tool_calls' = tool_calls
                           /\ pc' = "returned"
                           /\ run_result' = [kind |-> "answer", text |-> out.text,
                                             report |-> out.report]
                           /\ last' = [op |-> "submit_final", num |-> CurrentCall.id, calls |-> <<>>]
               ELSE /\ messages' = answered
                    /\ verify_log' = verify_log
                    /\ tool_calls' = Tail(tool_calls)
                    /\ pc' = AfterCall
                    /\ run_result' = run_result
                    /\ last' = [op |-> "script:" \o script_name, num |-> CurrentCall.id, calls |-> <<>>]
    /\ logged' = (CASE last'.op = "no_active_skill" -> LogEntries(0)
                     [] last'.op = "submit_final" -> LogEntries(2)
                     [] last'.op = "script_crash" -> LogEntriesWith(1, FALSE)
                     [] OTHER -> LogEntries(1))
    /\ UNCHANGED <<configVars, skill_entries, iteration, rate_limit_retries, next_id, active_skill,
                   active_tools>>

(***************************************************************************)
(* The while loop ends with the iteration budget used up.                  *)
(***************************************************************************)
BestEffortIndex(history) ==
    LET idx == {i \in 1..Len(history) :
                   /\ history[i].role = "assistant"
                   /\ history[i].content # None
                   /\ ~IsBanner(history[i].content)}
    IN IF idx = {} THEN 0 ELSE CHOOSE i \in idx : \A j \in idx : j <= i

BestEffort(history) ==
    IF BestEffortIndex(history) = 0 THEN "max_iterations_reached"
    ELSE history[BestEffortIndex(history)].content

MaxIterationsReached ==
    /\ pc = "call"
    /\ iteration >= MaxIterations
    /\ \E out \in FinalizeOutcomes(skills, BestEffort(messages)) :
          /\ run_result' = [kind |-> "best_effort", text |-> out.text,
                            report |-> out.report]
          /\ verify_log' = Append(verify_log,
                LogEntry("fallback", BestEffortIndex(messages), BestEffort(messages), out))
    /\ pc' = "returned"
    /\ last' = [op |-> "max_iterations", num |-> iteration, calls |-> <<>>]
    /\ logged' = LogEntries(IF verify_log'[Len(verify_log')].should_retry THEN 0 ELSE 1)
    /\ UNCHANGED <<configVars, queueVars, skill_entries, iteration, rate_limit_retries, active_skill,
                   active_tools, live_bound, messages, tool_calls, next_id>>

(***************************************************************************)
(* Specifications: the same program against different repertoires of the   *)
(* simulated model.                                                        *)
(***************************************************************************)
CreateCall(k) == ToolCall(<<"create_subquestion_tasks">>, ValidArgs, k, "")
CompleteCall(n) == ToolCall(<<"complete_task">>, ValidArgs, n, "r")
SubmitCall(a) == ToolCall(<<"submit_final_answer">>, ValidArgs, 0, a)
ActivateName(parts) == ToolCall(<<"activate_">> \o parts, ValidArgs, 0, "")
GrepCall == ToolCall(<<"grep_file">>, ValidArgs, 0, "")
ListCall == ToolCall(<<"list_skills">>, ValidArgs, 0, "")

SwitchCall(name) == ToolCall(<<"skill_switch">>, ValidArgs, 0, name)

ModelCall(menu) ==
    \/ \E e \in ApiErrors : ModelCallFails(e)
    \/ \E c \in TextContents : ModelReturnsText(c)
    \/ ModelReturnsToolCalls(menu)

\* the run loop against a model that plans, completes and submits
GateMenu == {CreateCall(1), CompleteCall(1), SubmitCall("answer_cited")}

Next ==
    \/ StartRun
    \/ ModelCall(GateMenu)
    \/ CompleteTaskCall
    \/ SkillScriptCall
    \/ MaxIterationsReached

Spec == Init /\ [][Next]_vars

\* the agent constructed over the repository's skills directory
InitAllSkills == Init /\ skills = Skills

\* the task queue against a model that creates and completes tasks
TaskMenu == {CreateCall(1), CreateCall(MaxBatch), CompleteCall(1), CompleteCall(2)}

NextTasks ==
    \/ StartRun
    \/ ModelCall(TaskMenu)
    \/ CompleteTaskCall
    \/ SkillScriptCall
    \/ MaxIterationsReached

SpecTasks == InitAllSkills /\ [][NextTasks]_vars

\* the shared history against a model that greps and lists
InitHistory == Init /\ skills \in {Skills, Skills \ {"finalize"}}

HistoryMenu == {GrepCall, ListCall, SwitchCall("coding")}

NextHistory ==
    \/ StartRun
    \/ ModelCall(HistoryMenu)
    \/ ListSkillsCall
    \/ SkillSwitchCall
    \/ SkillScriptCall
    \/ MaxIterationsReached

SpecHistory == InitHistory /\ [][NextHistory]_vars

\* activation requests for loaded, unknown and doubly prefixed names
ActivateMenu == {ActivateName(<<"answer">>), ActivateName(<<"nosuch">>),
                 ActivateName(<<"activate_", "coding">>)}

NextActivate ==
    \/ StartRun
    \/ ModelCall(ActivateMenu)
    \/ ActivateCall
    \/ MaxIterationsReached

SpecActivate == Init /\ [][NextActivate]_vars

\* tool calls whose argument strings are well-formed, repairable or broken
RepairableArgs == <<"{", "m", "}", "x">>
TruncatedArgs == <<"{", "m">>
EmptyObjectArgs == <<"{", "}">>

ParseMenu == {ToolCall(<<"list_skills">>, EmptyObjectArgs, 0, ""),
              ToolCall(<<"complete_task">>, RepairableArgs, 1, "r"),
              ToolCall(<<"complete_task">>, TruncatedArgs, 1, "r"),
              ToolCall(<<"skill_switch">>, <<"x">>, 0, "coding"),
              ToolCall(<<"list_skills">>, <<"5">>, 0, "")}

NextParse ==
    \/ StartRun
    \/ ModelCall(ParseMenu)
    \/ ListSkillsCall
    \/ CompleteTaskCall
    \/ MaxIterationsReached

SpecParse == InitAllSkills /\ [][NextParse]_vars

\* a SKILL.md is rewritten on disk while the agent is up
EditSkillFile ==
    /\ \E v \in SkillMdVersions \ {skill_md} : skill_md' = v
    /\ last' = [op |-> "edit_skill_md", num |-> 0, calls |-> <<>>]
    /\ logged' = LogEntries(0)
    /\ UNCHANGED <<skills, interactive, event_callback, logs_writable, preserve_data, skill_dirs,
                   enabled_skills, web,
                   runVars, queueVars, skill_entries, verify_log>>

\* repeated activations around edits of the documents
IdemMenu == {ActivateName(<<"answer">>), ActivateName(<<"coding">>)}

NextIdem ==
    \/ StartRun
    \/ ModelCall(IdemMenu)
    \/ ActivateCall
    \/ EditSkillFile
    \/ MaxIterationsReached

SpecIdem == InitAllSkills /\ [][NextIdem]_vars

\* a tool of the coding skill called well and badly, from inside and outside
FallbackMenu == {GrepCall, ToolCall(<<"grep_file">>, EmptyObjectArgs, 0, ""),
                 SwitchCall("coding")}

NextFallback ==
    \/ StartRun
    \/ ModelCall(FallbackMenu)
    \/ SkillSwitchCall
    \/ SkillScriptCall
    \/ MaxIterationsReached

SpecFallback == InitAllSkills /\ [][NextFallback]_vars

(***************************************************************************)
(* main(): the prompt loop around run.                                     *)
(***************************************************************************)
\* run has come back (or raised into main's handler): the prompt is shown again
NextInput ==
    /\ pc \in {"returned", "raised"}
    /\ pc' = "idle"
    /\ last' = [op |-> "prompt", num |-> 0, calls |-> <<>>]
    /\ logged' = LogEntries(0)
    /\ UNCHANGED <<configVars, queueVars, skill_entries, verify_log, iteration,
                   rate_limit_retries, active_skill, active_tools, live_bound, messages,
                   tool_calls, next_id, run_result>>

\* the 'clear' command
ClearCommand ==
    /\ pc = "idle"
    /\ messages' = <<>>
    /\ last' = [op |-> "clear", num |-> 0, calls |-> <<>>]
    /\ logged' = LogEntries(0)
    /\ UNCHANGED <<configVars, queueVars, skill_entries, verify_log, pc, iteration,
                   rate_limit_retries, active_skill, active_tools, live_bound,
                   tool_calls, next_id, run_result>>

\* several queries and clear commands in one session of the command line
RunsMenu == {ListCall, CompleteCall(1)}

NextRuns ==
    \/ StartRun
    \/ ModelCall(RunsMenu)
    \/ ListSkillsCall
    \/ CompleteTaskCall
    \/ MaxIterationsReached
    \/ NextInput
    \/ ClearCommand

SpecRuns == InitAllSkills /\ [][NextRuns]_vars

(***************************************************************************)
(* app.py: every web session runs on the one module-level agent.  The      *)
(* thread of another session enters run while this session's run is under  *)
(* way: its set-up works on the same scratch directory and the same        *)
(* agent.messages.                                                         *)
(***************************************************************************)
OtherSessionStartsRun ==
    /\ pc \in {"call", "tools"}
    /\ messages # <<>>
    /\ "planning" \in skills
    /\ incomplete' = EmptyBin
    /\ completed' = EmptyBin
    /\ current_task' = NoCurrentTask
    /\ scratch_files' = _initialize_scratch_directory(scratch_files, preserve_data)
    /\ messages' = <<messages[1], PlainMsg("user", "user_input_other"),
                     Msg("assistant", ActivationContent("planning"), 0, <<>>,
                         _get_current_task_info(NoCurrentTask))>>
    /\ skill_entries' = activate_skill(skill_entries, skill_md, "planning")
    /\ last' = [op |-> "other_session_start", num |-> 0, calls |-> <<>>]
    /\ logged' = LogEntries(2)
    /\ UNCHANGED <<configVars, created, verify_log, pc, iteration, rate_limit_retries,
                   active_skill, active_tools, live_bound, tool_calls, next_id,
                   run_result>>

\* one session plans and completes while another session sends a query
SessionsMenu == {CreateCall(1), CompleteCall(1)}

NextSessions ==
    \/ StartRun
    \/ ModelCall(SessionsMenu)
    \/ CompleteTaskCall
    \/ SkillScriptCall
    \/ MaxIterationsReached
    \/ OtherSessionStartsRun

SpecSessions == InitAllSkills /\ [][NextSessions]_vars

(***************************************************************************)
(* The conversation log and the event callback of the web wrapper.         *)
(***************************************************************************)
\* WebAgentWrapper.run registers its callback on the agent before the run
RegisterCallback ==
    /\ pc = "idle"
    /\ \E kind \in {"ok", "raises"} \ {event_callback} : event_callback' = kind
    /\ last' = [op |-> "register_callback", num |-> 0, calls |-> <<>>]
    /\ logged' = LogEntries(0)
    /\ UNCHANGED <<skills, interactive, skill_md, logs_writable, preserve_data, skill_dirs,
                   enabled_skills, web, runVars,
                   queueVars, skill_entries, verify_log>>

\* the logs directory becomes unwritable, or writable again
LogsDirChanges ==
    /\ logs_writable' = ~logs_writable
    /\ last' = [op |-> "logs_dir", num |-> 0, calls |-> <<>>]
    /\ logged' = LogEntries(0)
    /\ UNCHANGED <<skills, interactive, skill_md, event_callback, preserve_data, skill_dirs,
                   enabled_skills, web, runVars,
                   queueVars, skill_entries, verify_log>>

\* the agent of the web front end: standard output is not a terminal
InitDirect == Init /\ skills = Skills /\ interactive = FALSE

\* runs of the web wrapper against a model that lists and switches skills
LogMenu == {ListCall, SwitchCall("coding")}

NextLog ==
    \/ StartRun
    \/ ModelCall(LogMenu)
    \/ ListSkillsCall
    \/ SkillSwitchCall
    \/ MaxIterationsReached
    \/ NextInput
    \/ RegisterCallback
    \/ LogsDirChanges

SpecLog == InitDirect /\ [][NextLog]_vars

(***************************************************************************)
(* Runs one after the other on a scratch directory that fills up.          *)
(***************************************************************************)
\* the configuration read at construction sets scratch.preserve_data
InitScratch ==
    /\ skills = Skills
    /\ interactive = FALSE
    /\ pc = "idle"
    /\ iteration = 0
    /\ rate_limit_retries = 0
    /\ active_skill = None
    /\ active_tools = <<>>
    /\ live_bound = FALSE
    /\ messages = <<PlainMsg("system", "system_message")>>
    /\ tool_calls = <<>>
    /\ next_id = 1
    /\ incomplete = EmptyBin
    /\ completed = EmptyBin
    /\ current_task = NoCurrentTask
    /\ created = <<>>
    /\ run_result = NoResult
    /\ last = [op |-> "init", num |-> 0, calls |-> <<>>]
    /\ skill_md = "v1"
    /\ skill_entries = [s \in skills |-> NoEntry]
    /\ verify_log = <<>>
    /\ event_callback = None
    /\ logs_writable = TRUE
    /\ logged = LogEntries(0)
    /\ preserve_data \in BOOLEAN
    /\ scratch_files = {}
    /\ skill_dirs = ValidDirs(skills)
    /\ enabled_skills = {}
    /\ web = NoWeb

\* a file is put under scratch/data, or a web tool saves a page to scratch
ScratchWrite ==
    /\ pc \in {"idle", "tools", "returned"}
    /\ \E f \in ScratchPaths \ scratch_files : scratch_files' = scratch_files \cup {f}
    /\ last' = [op |-> "scratch_write", num |-> 0, calls |-> <<>>]
    /\ logged' = LogEntries(0)
    /\ UNCHANGED <<configVars, runVars, incomplete, completed, current_task, created,
                   skill_entries, verify_log>>

ScratchMenu == {CreateCall(2), CompleteCall(1)}

NextScratch ==
    \/ StartRun
    \/ ModelCall(ScratchMenu)
    \/ CompleteTaskCall
    \/ SkillScriptCall
    \/ MaxIterationsReached
    \/ NextInput
    \/ ScratchWrite

SpecScratch == InitScratch /\ [][NextScratch]_vars

(***************************************************************************)
(* Tool invocations that succeed, fail, resolve nowhere or return a value  *)
(* that is not a mapping.                                                  *)
(***************************************************************************)
InvokeMenu == {ToolCall(<<"get_scratch_dir">>, EmptyObjectArgs, 0, ""),
               ToolCall(<<"get_scratch_dir">>, ValidArgs, 0, ""),
               ToolCall(<<"nosuch_tool">>, ValidArgs, 0, ""),
               ToolCall(<<"check_subtask_responses">>, EmptyObjectArgs, 0, "")}

NextInvoke ==
    \/ StartRun
    \/ ModelCall(InvokeMenu)
    \/ SkillScriptCall
    \/ MaxIterationsReached

SpecInvoke == InitAllSkills /\ [][NextInvoke]_vars

(***************************************************************************)
(* Construction of the agent over a skills directory with broken manifests.*)
(***************************************************************************)
SkillDirNames == {"planning", "coding", "finalize"}

\* every order in which iterdir may list the directories
DirListings ==
    LET DirOrders == {o \in [1..Cardinality(SkillDirNames) -> SkillDirNames] :
                         \A i, j \in DOMAIN o : i # j => o[i] # o[j]}
    IN
    {[i \in DOMAIN o |-> [name |-> o[i], manifest |-> ms[o[i]]]] :
        o \in DirOrders, ms \in [SkillDirNames -> Manifests]}

InitLoad ==
    /\ skill_dirs \in DirListings
    /\ enabled_skills \in {{}, {"planning"}}
    /\ skills = {}
    /\ skill_entries = [s \in {} |-> NoEntry]
    /\ interactive = FALSE
    /\ pc = "new"
    /\ iteration = 0
    /\ rate_limit_retries = 0
    /\ active_skill = None
    /\ active_tools = <<>>
    /\ live_bound = FALSE
    /\ messages = <<>>
    /\ tool_calls = <<>>
    /\ next_id = 1
    /\ incomplete = EmptyBin
    /\ completed = EmptyBin
    /\ current_task = NoCurrentTask
    /\ created = <<>>
    /\ run_result = NoResult
    /\ last = [op |-> "init", num |-> 0, calls |-> <<>>]
    /\ skill_md = "v1"
    /\ verify_log = <<>>
    /\ event_callback = None
    /\ logs_writable = TRUE
    /\ logged = LogEntries(0)
    /\ preserve_data = FALSE
    /\ scratch_files = {}
    /\ web = NoWeb

\* AgentSkillsFramework.__init__: the loader reads the skills directory
ConstructAgent ==
    /\ pc = "new"
    /\ skills' = load_skills(skill_dirs, enabled_skills, {})
    /\ skill_entries' = [s \in skills' |-> NoEntry]
    /\ messages' = <<PlainMsg("system", "system_message")>>
    /\ pc' = "idle"
    /\ last' = [op |-> "constructed", num |-> 0, calls |-> <<>>]
    /\ logged' = LogEntries(0)
    /\ UNCHANGED <<interactive, skill_md, event_callback, logs_writable, preserve_data,
                   skill_dirs, enabled_skills, web, queueVars, verify_log, iteration,
                   rate_limit_retries, active_skill, active_tools, live_bound, tool_calls,
                   next_id, run_result>>

ListMenu == {ListCall}

NextLoad ==
    \/ ConstructAgent
    \/ StartRun
    \/ ModelCall(ListMenu)
    \/ ListSkillsCall
    \/ MaxIterationsReached

SpecLoad == InitLoad /\ [][NextLoad]_vars

(***************************************************************************)
(* app.py: sessions of the web front end, their runs and their reaper.     *)
(* Time is in seconds and passes in steps of half an hour.  The session    *)
(* state dictionaries are objects: web.states holds them, the session map  *)
(* and every run refer to one by its index, so that a dictionary deleted   *)
(* from the map stays the one its run thread writes to.  A run is the      *)
(* sequence of log entries that its agent hands to agent.event_callback;   *)
(* the loop that produces them is the subject of the sections above.       *)
(***************************************************************************)
SessionIds == {"s1", "s2"}

TickSeconds == 1800

\* POST /api/run: the check-and-set under sessions_lock; the response that
\* carries generate() is returned and the generator has not yet started
run_agent(session_id) ==
    /\ Len(web.runs) < MaxRuns
    /\ LET known == session_id \in DOMAIN web.sessions
           ref == IF known THEN web.sessions[session_id] ELSE Len(web.states) + 1
           session_state == IF known THEN web.states[ref]
                            ELSE [running |-> FALSE, start_time |-> 0,
                                  elapsed_time |-> 0, completed |-> FALSE,
                                  logs |-> <<>>]
           started == [session_state EXCEPT !.running = TRUE,
                                            !.start_time = web.clock,
                                            !.logs = <<>>,
                                            !.completed = FALSE]
       IN /\ ~session_state.running
          /\ web' = [web EXCEPT
                       !.sessions = Put(web.sessions, session_id, ref),
                       !.states = IF known THEN [web.states EXCEPT ![ref] = started]
                                  ELSE Append(web.states, started),
                       !.runs = Append(web.runs,
                                       [session |-> session_id, state |-> ref,
                                        phase |-> "accepted", start_time |-> 0,
                                        emitted |-> 0, queue |-> <<>>,
                                        sent |-> <<>>, closed |-> FALSE])]
    /\ last' = [op |-> "web", num |-> 0, calls |-> <<>>]
    /\ logged' = LogEntries(0)
    /\ UNCHANGED <<skills, interactive, skill_md, event_callback, logs_writable,
                   preserve_data, skill_dirs, enabled_skills, runVars, queueVars,
                   skill_entries, verify_log>>

\* generate() starts the run thread, whose wrapper registers its callback on
\* the one agent before it calls agent.run
WebAgentWrapper_run(r) ==
    /\ r \in DOMAIN web.runs
    /\ web.runs[r].phase = "accepted"
    /\ web' = [web EXCEPT !.runs[r].phase = "running",
                          !.runs[r].start_time = web.clock,
                          !.callback = r]
    /\ last' = [op |-> "web", num |-> 0, calls |-> <<>>]
    /\ logged' = LogEntries(0)
    /\ UNCHANGED <<skills, interactive, skill_md, event_callback, logs_writable,
                   preserve_data, skill_dirs, enabled_skills, runVars, queueVars,
                   skill_entries, verify_log>>

\* add_event of the wrapper of run c: persist_event is update_state_from_event
\* of the request that made the wrapper, the queue is that request's queue
add_event(w, c, event) ==
    LET elapsed == w.clock - w.runs[c].start_time
    IN [w EXCEPT !.states[w.runs[c].state].elapsed_time = elapsed,
                 !.states[w.runs[c].state].logs = Append(@, event),
                 !.runs[c].queue = Append(@, event)]

\* the agent of run r logs an entry: _log_message calls agent.event_callback,
\* the bound method of the wrapper that registered last
WebAgentWrapper_event_callback(r) ==
    /\ r \in DOMAIN web.runs
    /\ web.runs[r].phase = "running"
    /\ web.runs[r].emitted < MaxEvents
    /\ web' = [add_event(web, web.callback,
                         [type |-> "log", run |-> r, seq |-> web.runs[r].emitted + 1])
                 EXCEPT !.runs[r].emitted = @ + 1]
    /\ last' = [op |-> "web", num |-> 0, calls |-> <<>>]
    /\ logged' = LogEntries(0)
    /\ UNCHANGED <<skills, interactive, skill_md, event_callback, logs_writable,
                   preserve_data, skill_dirs, enabled_skills, runVars, queueVars,
                   skill_entries, verify_log>>

\* run_agent_thread from the return of agent.run: an exception becomes an
\* error event of the wrapper's own, then the finally block writes to the
\* session state that the thread holds and sets agent_done
run_agent_thread(r) ==
    /\ r \in DOMAIN web.runs
    /\ web.runs[r].phase = "running"
    /\ \E raised \in BOOLEAN :
         LET w == IF raised
                  THEN add_event(web, r, [type |-> "error", run |-> r,
                                          seq |-> web.runs[r].emitted + 1])
                  ELSE web
         IN web' = [w EXCEPT !.states[w.runs[r].state].running = FALSE,
                             !.states[w.runs[r].state].completed = TRUE,
                             !.runs[r].phase = "done"]
    /\ last' = [op |-> "web", num |-> 0, calls |-> <<>>]
    /\ logged' = LogEntries(0)
    /\ UNCHANGED <<skills, interactive, skill_md, event_callback, logs_writable,
                   preserve_data, skill_dirs, enabled_skills, runVars, queueVars,
                   skill_entries, verify_log>>

\* a stream that ends as soon as the agent thread is done
stream_open_UntilDone(agent_done, event_queue) == ~agent_done

\* the condition of the streaming loop
stream_open(agent_done, event_queue) == ~agent_done \/ event_queue # <<>>

\* generate(): one event is taken from the queue and sent to the client
generate_yields(r) ==
    /\ r \in DOMAIN web.runs
    /\ web.runs[r].phase \in {"running", "done"}
    /\ ~web.runs[r].closed
    /\ stream_open(web.runs[r].phase = "done", web.runs[r].queue)
    /\ web.runs[r].queue # <<>>
    /\ web' = [web EXCEPT !.runs[r].sent = Append(@, Head(web.runs[r].queue)),
                          !.runs[r].queue = Tail(@)]
    /\ last' = [op |-> "web", num |-> 0, calls |-> <<>>]
    /\ logged' = LogEntries(0)
    /\ UNCHANGED <<skills, interactive, skill_md, event_callback, logs_writable,
                   preserve_data, skill_dirs, enabled_skills, runVars, queueVars,
                   skill_entries, verify_log>>

\* generate(): the loop is left, the thread is joined, 'complete' is sent
generate_completes(r) ==
    /\ r \in DOMAIN web.runs
    /\ web.runs[r].phase \in {"running", "done"}
    /\ ~web.runs[r].closed
    /\ ~stream_open(web.runs[r].phase = "done", web.runs[r].queue)
    /\ web' = [web EXCEPT !.runs[r].sent =
                              Append(@, [type |-> "complete", run |-> r, seq |-> 0]),
                          !.runs[r].closed = TRUE]
    /\ last' = [op |-> "web", num |-> 0, calls |-> <<>>]
    /\ logged' = LogEntries(0)
    /\ UNCHANGED <<skills, interactive, skill_md, event_callback, logs_writable,
                   preserve_data, skill_dirs, enabled_skills, runVars, queueVars,
                   skill_entries, verify_log>>

Tick ==
    /\ web.clock < MaxTicks * TickSeconds
    /\ web' = [web EXCEPT !.clock = web.clock + TickSeconds]
    /\ last' = [op |-> "tick", num |-> 0, calls |-> <<>>]
    /\ logged' = LogEntries(0)
    /\ UNCHANGED <<skills, interactive, skill_md, event_callback, logs_writable,
                   preserve_data, skill_dirs, enabled_skills, runVars, queueVars,
                   skill_entries, verify_log>>

expired_sessions(sessions, states, current_time) ==
    {session_id \in DOMAIN sessions :
        current_time - states[sessions[session_id]].start_time > SESSION_TIMEOUT}

cleanup_old_sessions ==
    /\ expired_sessions(web.sessions, web.states, web.clock) # {}
    /\ web' = [web EXCEPT
                 !.sessions = [s \in DOMAIN web.sessions
                                  \ expired_sessions(web.sessions, web.states, web.clock)
                               |-> web.sessions[s]]]
    /\ last' = [op |-> "cleanup", num |-> 0, calls |-> <<>>]
    /\ logged' = LogEntries(0)
    /\ UNCHANGED <<skills, interactive, skill_md, event_callback, logs_writable,
                   preserve_data, skill_dirs, enabled_skills, runVars, queueVars,
                   skill_entries, verify_log>>

\* run requests, runs and the reaper as time passes
NextReaper ==
    \/ \E s \in SessionIds : run_agent(s)
    \/ \E r \in 1..MaxRuns : WebAgentWrapper_run(r)
    \/ \E r \in 1..MaxRuns : WebAgentWrapper_event_callback(r)
    \/ \E r \in 1..MaxRuns : run_agent_thread(r)
    \/ Tick
    \/ cleanup_old_sessions

SpecReaper == InitDirect /\ [][NextReaper]_vars

\* runs of several sessions and their streaming responses
NextStream ==
    \/ \E s \in SessionIds : run_agent(s)
    \/ \E r \in 1..MaxRuns : WebAgentWrapper_run(r)
    \/ \E r \in 1..MaxRuns : WebAgentWrapper_event_callback(r)
    \/ \E r \in 1..MaxRuns : run_agent_thread(r)
    \/ \E r \in 1..MaxRuns : generate_yields(r)
    \/ \E r \in 1..MaxRuns : generate_completes(r)

SpecStream == InitDirect /\ [][NextStream]_vars

\* a model that switches to a loaded skill, to an unknown one, and to none
SwitchMenu == {SwitchCall("coding"), SwitchCall("nosuch"),
               ToolCall(<<"skill_switch">>, EmptyObjectArgs, 0, "")}

NextSwitch ==
    \/ StartRun
    \/ ModelCall(SwitchMenu)
    \/ SkillSwitchCall
    \/ MaxIterationsReached

SpecSwitch == InitDirect /\ [][NextSwitch]_vars

\* activation, switch and the automatic activations in one run
ToolsMenu == {ActivateName(<<"coding">>), SwitchCall("answer"), CreateCall(1),
              CompleteCall(1)}

NextTools ==
    \/ StartRun
    \/ ModelCall(ToolsMenu)
    \/ ActivateCall
    \/ SkillSwitchCall
    \/ CompleteTaskCall
    \/ SkillScriptCall
    \/ MaxIterationsReached

SpecTools == InitDirect /\ [][NextTools]_vars


(***************************************************************************)
(* Properties.                                                             *)
(***************************************************************************)
LastMsg == messages[Len(messages)]

Range(seq) == {seq[i] : i \in 1..Len(seq)}

TextOps == {"text_blocked", "text_wait", "text_force_answer", "text_unbound_live",
            "text_retry", "text_final"}

\* C3: a model turn without tool calls, taken while the incomplete bin is
\* non-empty, is never finalized or returned: a user-role reminder listing the
\* outstanding task numbers is appended and the loop goes on.
C3_BlockedWhileTasksRemain ==
    (last.op \in TextOps /\ DOMAIN incomplete # {}) =>
        /\ last.op = "text_blocked"
        /\ pc = "call"
        /\ run_result = NoResult
        /\ LastMsg.role = "user"
        /\ LastMsg.content = "incomplete_tasks_reminder"
        /\ Range(LastMsg.tasks) = DOMAIN incomplete

C3_Witness ==
    /\ last.op = "text_blocked"
    /\ DOMAIN incomplete # {}
    /\ pc = "call"
    /\ LastMsg.content = "incomplete_tasks_reminder"

\* C4: whenever run returns an answer the model submitted (plain text or a
\* FINAL_ANSWER_SUBMITTED tool result), the incomplete bin is empty.
C4_NoAnswerWhileTasksRemain ==
    (pc = "returned" /\ run_result.kind = "answer") => DOMAIN incomplete = {}

\* C6: run never raises to its caller: it always ends by returning a string.
C6_RunNeverRaises == pc # "raised"

\* C8: a model call that fails with a rate-limit signal is retried in the
\* same iteration slot while at most 3 retries were used, and ends the run
\* with an error string only once the retry bound is exceeded.
C8_RateLimitRetried ==
    (last.op = "api_error:rate_limit") =>
        \/ /\ pc = "call"
           /\ iteration = last.num - 1
           /\ rate_limit_retries <= max_rate_limit_retries
        \/ /\ pc = "returned"
           /\ run_result.kind = "error"
           /\ rate_limit_retries > max_rate_limit_retries


\* C1: no task number is ever given to two tasks of a run, also after the
\* first holder was completed.
C1_TaskNumbersNeverReused ==
    \A i, j \in 1..Len(created) : i # j => created[i] # created[j]

Lowest(S) == CHOOSE n \in S : \A m \in S : n <= m

\* C2: after every successful complete_task the current-task pointer names
\* the lowest-numbered task left in the incomplete bin, or is cleared (status
\* none) when none is left.
C2_LowestRemainingActivated ==
    (last.op = "task_completed") =>
        IF DOMAIN incomplete = {}
        THEN current_task.status = "none"
        ELSE current_task = [status |-> "active", task_number |-> Lowest(DOMAIN incomplete)]

\* C5: every tool-role message answers a tool call of an assistant message
\* that stands earlier in the history.
C5_ToolMessagesAnswerEarlierCalls ==
    \A i \in 1..Len(messages) :
        messages[i].role = "tool" =>
            \E j \in 1..(i - 1) :
                /\ messages[j].role = "assistant"
                /\ \E k \in 1..Len(messages[j].tool_calls) :
                      messages[j].tool_calls[k].id = messages[i].tool_call_id


ModelCallOps == TextOps \cup {"api_error:rate_limit", "api_error:other", "tool_calls",
                              "parse_error", "args_type_error"}

InvalidJson(arguments) == json_loads(arguments).kind = "JSONDecodeError"

ResponseHasInvalidJson ==
    /\ last.op \in {"tool_calls", "parse_error", "args_type_error"}
    /\ \E i \in 1..Len(last.calls) : InvalidJson(last.calls[i].arguments)

CorrectiveAppended ==
    /\ last.op = "parse_error"
    /\ pc = "call"
    /\ Len(messages) >= 2
    /\ messages[Len(messages) - 1] = PlainMsg("assistant", "invalid_json_placeholder")
    /\ LastMsg = PlainMsg("user", "malformed_json_retry")

ScanFindsUnparseable ==
    /\ last.op \in {"tool_calls", "parse_error", "args_type_error"}
    /\ \E i \in 1..Len(last.calls) :
          /\ _safe_parse_json(last.calls[i].arguments).parse_error
          /\ \A j \in 1..(i - 1) : json_loads(last.calls[j].arguments).kind # "scalar"

RequestedTask == IF function_args.members THEN CurrentCall.num ELSE 0

\* C9: complete_task for a number that is not in the incomplete bin changes
\* neither bin, nor the stored results, the current-task pointer or the
\* active skill; a tool-role error message answers the call and the loop
\* goes on.
C9_UnknownTaskIsNoOp ==
    [][(/\ pc = "tools"
        /\ function_name = <<"complete_task">>
        /\ function_args.kind = "dict"
        /\ RequestedTask \notin DOMAIN incomplete)
       => /\ incomplete' = incomplete
          /\ completed' = completed
          /\ current_task' = current_task
          /\ active_skill' = active_skill
          /\ active_tools' = active_tools
          /\ messages' = Append(messages,
                                ToolMsg(CurrentCall.id, "status:error:task_not_found"))
          /\ pc' \in {"call", "tools"}
          /\ run_result' = run_result]_vars

C9_Witness ==
    /\ last.op = "task_not_found"
    /\ last.num \in DOMAIN completed
    /\ last.num \notin DOMAIN incomplete
    /\ LastMsg.role = "tool"
    /\ LastMsg.content = "status:error:task_not_found"

RequestedSkillLoaded ==
    Len(function_name) = 2 /\ function_name[2] \in skills

\* C10: activate_<name> for a name that is not a loaded skill leaves the
\* active skill and the active tool set as they were, appends a tool-role
\* error message answering the call, and the loop goes on.
C10_UnknownSkillLeavesStateAlone ==
    [][(/\ pc = "tools"
        /\ startswith_activate(function_name)
        /\ ~RequestedSkillLoaded)
       => /\ active_skill' = active_skill
          /\ active_tools' = active_tools
          /\ messages' = Append(messages, ToolMsg(CurrentCall.id, "error:skill_not_found"))
          /\ pc' \in {"call", "tools"}]_vars

LastVerify == verify_log[Len(verify_log)]

Returned(kinds) == pc = "returned" /\ run_result.kind \in kinds

\* C11: a candidate answer citing a URL without cached content makes
\* finalization return should_retry = true, and run does not return it.
C11_UncachedCitationRetried ==
    \A i \in 1..Len(verify_log) :
        (HasUrl(verify_log[i].candidate) /\ verify_log[i].unverifiable) =>
            /\ verify_log[i].should_retry
            /\ ~(i = Len(verify_log) /\ Returned({"answer", "best_effort"}))

\* C12: finalization of an answer without URLs returns exactly that answer
\* with should_retry = false.
C12_NoUrlAnswerUnchanged ==
    (/\ Returned({"answer", "best_effort"})
     /\ verify_log # <<>>
     /\ ~HasUrl(LastVerify.candidate)) =>
        /\ ~LastVerify.should_retry
        /\ run_result.text = LastVerify.candidate
        /\ ~run_result.report

NoDuplicates(seq) == \A i, j \in 1..Len(seq) : i # j => seq[i] # seq[j]

\* the step activates skill s through _activate_skill
Activates(s) ==
    /\ s \in skills
    /\ active_skill' = s
    /\ \/ last'.op \in {"start", "activated", "switched", "text_force_answer"}
       \/ last'.op = "task_completed" /\ current_task'.status = "none"

\* C13: an activation of a loaded skill leaves its instruction document
\* loaded; when the document was loaded before, the activation returns the
\* same instructions without reading them again; the active tool list is the
\* skill's tool list, each tool once.
C13_ActivationIdempotent ==
    [][\A s \in Skills : Activates(s) =>
          /\ skill_entries'[s].content_loaded
          /\ skill_entries[s].content_loaded => skill_entries'[s] = skill_entries[s]
          /\ ~skill_entries[s].content_loaded => skill_entries'[s].full_content = skill_md
          /\ \A t \in skills \ {s} : skill_entries'[t] = skill_entries[t]
          /\ NoDuplicates(active_tools')
          /\ Range(active_tools') = SkillTools(s)]_vars

\* a second activation of the answer skill after its document changed on disk
C13_Witness ==
    /\ last.op = "activated"
    /\ active_skill = "answer"
    /\ skill_entries["answer"].content_loaded
    /\ skill_entries["answer"].full_content # skill_md
    /\ active_tools = <<"check_subtask_responses">>

NotedPayloads == {"result:tasks_created+note", "result:no_descriptions+note",
                  "result:grep+note", "status:FINAL_ANSWER_SUBMITTED+note",
                  "result:subtask_responses+note"}

\* C14: a tool call is served by another skill only when the active skill
\* does not own a tool of that name, and every payload that comes back through
\* the cross-skill fallback carries the note about the owning skill.
C14_FallbackOnlyForeignAndNoted ==
    [][(/\ pc = "tools"
        /\ ~startswith_activate(function_name)
        /\ function_name \notin GlobalToolNames
        /\ active_skill # None)
       => LET where == ResolveTool(skills, active_skill, SkillOfName(function_name))
              payload == messages'[Len(messages')]
          IN /\ payload.role \in {"tool", "user"}
             /\ (payload.role = "tool" /\ payload.content \in NotedPayloads)
                    => where = "other"
             /\ where = "other"
                    => (payload.role = "tool" => payload.content \in NotedPayloads)
         ]_vars

\* C15: a successful complete_task that empties the incomplete bin while the
\* answer skill is loaded makes the answer skill active with its tools and
\* tells the model so in the tool message; a later turn without tool calls
\* whose text holds no citation makes run return exactly that text.
C15_QueueEmptiedThenAnswerReturned ==
    /\ (/\ last.op = "task_completed"
        /\ DOMAIN incomplete = {}
        /\ "answer" \in skills) =>
           /\ active_skill = "answer"
           /\ active_tools = get_skill_tools(skills, "answer")
           /\ LastMsg.role = "tool"
           /\ LastMsg.content = "status:success"
           /\ LastMsg.tasks = _get_current_task_info(current_task)
           /\ current_task.status = "none"
    /\ (/\ last.op \in TextOps
        /\ DOMAIN completed # {}
        /\ DOMAIN incomplete = {}
        /\ active_skill = "answer"
        /\ LastMsg.role = "assistant"
        /\ LastMsg.content = "answer_plain") =>
           /\ Returned({"answer"})
           /\ run_result.text = "answer_plain"
           /\ ~run_result.report

\* C16: every run starts from the preserved system message followed by the
\* new user message and the planning activation message, whatever happened
\* on the agent before.
C16_HistoryResetAtRunStart ==
    (last.op = "start") =>
        messages = <<PlainMsg("system", "system_message"),
                     PlainMsg("user", "user_input"),
                     Msg("assistant", ActivationContent("planning"), 0, <<>>,
                         _get_current_task_info(NoCurrentTask))>>

\* C17: while a session's run is under way, the history it works on holds no
\* message of another session and still starts with its own query, and no
\* task it created has disappeared from its bins.
C17_SessionsIsolated ==
    (pc \in {"call", "tools", "returned"}) =>
        /\ \A i \in 1..Len(messages) : messages[i].content # "user_input_other"
        /\ Len(messages) >= 2 /\ messages[2] = PlainMsg("user", "user_input")
        /\ Range(created) \subseteq (DOMAIN incomplete \cup DOMAIN completed)

\* C18: a creation makes its task the current task only when it is the first
\* task of the first batch of the run; every later creation leaves the
\* current-task pointer as it was.
C18_OnlyFirstTaskOfFirstBatchActivated ==
    [][Len(created') > Len(created) =>
          IF created = <<>>
          THEN current_task' = [status |-> "active", task_number |-> created'[1]]
          ELSE current_task' = current_task]_vars

\* C19: link verification runs exactly once for each candidate answer: no
\* answer is returned without a finalization of it, and no message of the
\* history is taken through finalization twice.
C19_VerifiedExactlyOnce ==
    /\ Returned({"answer", "best_effort"}) => verify_log # <<>>
    /\ \A i, j \in 1..Len(verify_log) :
          (i # j /\ verify_log[i].index # 0) => verify_log[i].index # verify_log[j].index

Retries == {i \in 1..Len(verify_log) : verify_log[i].should_retry}

\* C20: a finalization that asks for a retry is followed by the corrective
\* user message and a further pass of the loop, and a run never has more
\* such retries than it has iterations.
C20_RetriesWithinIterationBudget ==
    /\ Cardinality(Retries) <= MaxIterations
    /\ (verify_log # <<>> /\ LastVerify.should_retry
            /\ last.op \in {"text_retry", "submit_retry", "max_iterations"}) =>
           /\ LastMsg = RetryMsg
           /\ pc \in {"call", "tools"}

IsPrefix(a, b) == Len(a) <= Len(b) /\ SubSeq(b, 1, Len(a)) = a

\* the tool results that follow an assistant message answer its calls in the
\* order of the calls, with nothing between them
ToolResultsInOrder(history) ==
    \A i \in 1..Len(history) :
        (history[i].role = "assistant" /\ history[i].tool_calls # <<>>) =>
            \A k \in 1..Len(history[i].tool_calls) :
                (i + k <= Len(history)) =>
                    /\ history[i + k].role = "tool"
                    /\ history[i + k].tool_call_id = history[i].tool_calls[k].id

\* C21: during a run the history only grows at its end, and the tool results
\* of an assistant message stand directly behind it in the order of its tool
\* calls.
C21_HistoryAppendOnlyAndOrdered ==
    [][(pc \in {"call", "tools"}) =>
          /\ IsPrefix(messages, messages')
          /\ ToolResultsInOrder(messages')]_vars

\* the history read from its end: the first assistant message that has
\* content and is not an activation banner
RECURSIVE MostRecentAnswer(_)
MostRecentAnswer(history) ==
    IF history = <<>> THEN "max_iterations_reached"
    ELSE LET msg == history[Len(history)]
         IN IF msg.role = "assistant" /\ msg.content # None /\ ~IsBanner(msg.content)
            THEN msg.content
            ELSE MostRecentAnswer(SubSeq(history, 1, Len(history) - 1))

FallbackEntries == {i \in 1..Len(verify_log) : verify_log[i].source = "fallback"}

\* C22: when the iteration budget is used up, run returns the content of the
\* most recent assistant message with content that is not an activation
\* banner (the fixed message if there is none), finalized once.
C22_BestEffortIsLastRealAnswer ==
    (last.op = "max_iterations") =>
        /\ Returned({"best_effort"})
        /\ Cardinality(FallbackEntries) = 1
        /\ LastVerify.source = "fallback"
        /\ LastVerify.candidate = MostRecentAnswer(messages)
        /\ run_result.text = MostRecentAnswer(messages)

C24_ScratchClearedAtRunStart ==
    [][(last'.op = "start") =>
          /\ incomplete' = EmptyBin
          /\ completed' = EmptyBin
          /\ current_task' = NoCurrentTask
          /\ scratch_files' = (IF preserve_data THEN scratch_files \cap {"data"} ELSE {})]_vars

\* a second run started on top of tasks, results, a marker, data and pages
C24_Witness ==
    /\ last.op = "start"
    /\ preserve_data
    /\ scratch_files = {"data"}
    /\ incomplete = EmptyBin
    /\ completed = EmptyBin
    /\ current_task = NoCurrentTask

\* C25: a call of a skill tool always ends with one tool-role message that
\* answers the call (an error payload when the tool resolves nowhere or
\* raises, the wrapped value when it returns something that is no mapping),
\* and the run goes on.
C25_ToolCallAlwaysAnsweredAndLoopGoesOn ==
    [][(/\ pc = "tools"
        /\ ~startswith_activate(function_name)
        /\ function_name \notin GlobalToolNames
        /\ active_skill # None
        /\ SkillOfName(function_name) \notin FinalizeTools)
       => LET where == ResolveTool(skills, active_skill, SkillOfName(function_name))
              answer == messages'[Len(messages')]
          IN /\ Len(messages') = Len(messages) + 1
             /\ answer.role = "tool"
             /\ answer.tool_call_id = CurrentCall.id
             /\ where = "script_not_found" => answer.content = "error:script_not_found"
             /\ pc' \in {"call", "tools"}
             /\ run_result' = run_result]_vars

\* the directories of the listing whose manifest has a front-matter block
\* with both required fields
ValidlyDescribed ==
    {skill_dirs[i].name : i \in {j \in DOMAIN skill_dirs :
        /\ skill_dirs[j].manifest.frontmatter
        /\ skill_dirs[j].manifest.has_name
        /\ skill_dirs[j].manifest.has_description}}

Enabled(name) == enabled_skills = {} \/ name \in enabled_skills \/ name = "finalize"

\* C26: after construction the loaded skills are exactly the enabled skills
\* whose manifest has a front-matter block with name and description,
\* whatever the other manifests hold and in whatever order the directories
\* are listed.
C26_BrokenManifestAffectsThatSkillOnly ==
    (pc # "new") => skills = {n \in ValidlyDescribed : Enabled(n)}

\* a broken manifest listed first, a valid one after it, the valid one loaded
C26_Witness ==
    /\ pc = "idle"
    /\ last.op = "constructed"
    /\ ~skill_dirs[1].manifest.has_description
    /\ skill_dirs[1].manifest.has_name
    /\ ~skill_dirs[2].manifest.frontmatter
    /\ skill_dirs[3].name = "planning"
    /\ skills = {"planning"}

\* the time for which a session with no run in progress has been idle
IdleFor(session_state, now) ==
    now - (session_state.start_time + session_state.elapsed_time)

\* the runs of a session that have been accepted and have not ended
RunsInFlight(s) ==
    {r \in DOMAIN web.runs : web.runs[r].session = s /\ web.runs[r].phase # "done"}

\* C27: a session leaves the session map only when no run of it is in
\* progress and it has been idle for longer than the timeout.
C27_ReaperEvictsOnlyIdleSessions ==
    [][\A s \in DOMAIN web.sessions :
          s \notin DOMAIN web'.sessions =>
              /\ ~web.states[web.sessions[s]].running
              /\ RunsInFlight(s) = {}
              /\ IdleFor(web.states[web.sessions[s]], web.clock) > SESSION_TIMEOUT]_vars

\* C28: the spinner path and the direct path treat the same model response
\* or model-call failure alike: a failed call has on either path the effect
\* it has on the direct path, and a response without tool calls never ends
\* the run with the error of the display object that only the spinner path
\* creates.
C28_SpinnerPathEqualsDirectPath ==
    [][/\ \A e \in ApiErrors :
            last'.op = "api_error:" \o e =>
                [iteration |-> iteration', rate_limit_retries |-> rate_limit_retries',
                 pc |-> pc', run_result |-> run_result']
                    = direct_call_failure(iteration, rate_limit_retries, e)
       /\ last'.op \in TextOps => run_result' # ErrorResult("UnboundLocalError")]_vars

\* the tools of a skill as the loader knows them
LoadedSkillTools(s) == IF s \in skills THEN SkillTools(s) ELSE {}

\* C29: at every model call the tool list handed to the model is the tool
\* set of the active skill together with list_skills, skill_switch and
\* complete_task, and during a run the stored active tool list is the tool
\* list of the active skill, each tool once.
C29_OfferedToolsFollowActiveSkill ==
    /\ pc = "call" =>
          Range(tools(active_skill, active_tools, skills))
              = LoadedSkillTools(active_skill)
                    \cup {"list_skills", "skill_switch", "complete_task"}
    /\ pc \in {"call", "tools"} =>
          /\ Range(active_tools) = LoadedSkillTools(active_skill)
          /\ NoDuplicates(active_tools)

\* a model call after the queue emptied and the answer skill was activated
\* automatically, the run having started in the planning skill
C29_Witness ==
    /\ pc = "call"
    /\ last.op = "task_completed"
    /\ active_skill = "answer"
    /\ active_tools = <<"check_subtask_responses">>

\* the step handles a model response without tool calls
TextStep == pc = "call" /\ last'.op \in TextOps

\* C30: a response without tool calls, received with an empty task queue
\* while a skill other than the loaded answer skill is active, does not end
\* the run: the answer skill and its tools become active, its activation
\* message is appended and the loop goes on; so where the answer skill is
\* loaded, run returns from a response without tool calls only while the
\* answer skill is active.
C30_ForcesAnswerSkillBeforeReturning ==
    [][/\ (/\ TextStep
           /\ incomplete_tasks(incomplete) = <<>>
           /\ active_skill # "answer"
           /\ "answer" \in skills)
          => /\ pc' = "call"
             /\ run_result' = run_result
             /\ active_skill' = "answer"
             /\ active_tools' = <<"check_subtask_responses">>
             /\ messages' = Append(messages,
                                   PlainMsg("user", ActivationContent("answer")))
       /\ (TextStep /\ pc' # "call" /\ "answer" \in skills)
          => active_skill = "answer"]_vars

\* the answer skill was forced on a turn that carried text, and the run
\* goes on from the planning skill's first turn
C30_Witness ==
    /\ last.op = "text_force_answer"
    /\ pc = "call"
    /\ active_skill = "answer"
    /\ active_tools = <<"check_subtask_responses">>
    /\ LastMsg = PlainMsg("user", ActivationContent("answer"))
    /\ run_result = NoResult

\* the model calls made so far in the run: the passes of the loop that kept
\* their iteration slot and those that gave it back for a retry
ModelCallsMade ==
    iteration + (IF rate_limit_retries <= max_rate_limit_retries
                 THEN rate_limit_retries ELSE max_rate_limit_retries)

\* C32: a run makes at most max_iterations plus three model calls: every
\* model call raises the count of ModelCallsMade by one, no other step of the
\* run changes it, the retry counter never goes down during a run, and the
\* count never exceeds the bound.
C32_ModelCallsBounded ==
    /\ [](ModelCallsMade <= MaxIterations + max_rate_limit_retries)
    /\ [][/\ (pc = "call" /\ iteration < MaxIterations)
                => ModelCallsMade' = ModelCallsMade + 1
          /\ (pc = "tools" \/ (pc = "call" /\ iteration >= MaxIterations))
                => (iteration' = iteration /\ rate_limit_retries' = rate_limit_retries)
          /\ pc \in {"call", "tools"} => rate_limit_retries' >= rate_limit_retries]_vars

\* a run that used every iteration and every retry
C32_Witness ==
    /\ pc = "returned"
    /\ last.op = "max_iterations"
    /\ iteration = MaxIterations
    /\ rate_limit_retries = max_rate_limit_retries

\* the step is a model response handled by the parse-error branch, or one
\* that should have been
ParseErrorFrame ==
    /\ pc' = "call"
    /\ tool_calls' = <<>>
    /\ messages' = messages \o <<PlainMsg("assistant", "invalid_json_placeholder"),
                                 PlainMsg("user", "malformed_json_retry")>>
    /\ active_skill' = active_skill
    /\ active_tools' = active_tools
    /\ skill_entries' = skill_entries
    /\ incomplete' = incomplete
    /\ completed' = completed
    /\ current_task' = current_task

SubmitAccepted ==
    /\ pc = "tools"
    /\ Len(verify_log') = Len(verify_log) + 1
    /\ verify_log'[Len(verify_log')].source = "submit"
    /\ ~verify_log'[Len(verify_log')].should_retry

\* C34: a tool result with status FINAL_ANSWER_SUBMITTED whose verification
\* asks for no retry ends the run at once with the submitted answer: the
\* tool message of the call is the last message appended, the later calls of
\* the response stay unexecuted, and no step of the run follows.
C34_SubmitShortCircuits ==
    [][/\ SubmitAccepted =>
            /\ pc' = "returned"
            /\ run_result'.kind = "answer"
            /\ run_result'.text = CurrentCall.str
            /\ tool_calls' = tool_calls
            /\ Len(messages') = Len(messages) + 1
            /\ messages'[Len(messages')].role = "tool"
            /\ messages'[Len(messages')].tool_call_id = CurrentCall.id
            /\ iteration' = iteration
       /\ (pc = "returned" /\ last.op = "submit_final") => last'.op = "start"]_vars

\* the submission was the first of two calls of the response
C34_Witness ==
    /\ pc = "returned"
    /\ last.op = "submit_final"
    /\ run_result.kind = "answer"
    /\ run_result.text = "answer_cited"
    /\ Len(tool_calls) = 2
    /\ tool_calls[1].name = <<"submit_final_answer">>
    /\ tool_calls[2].name = <<"complete_task">>

\* C38: while a run is in its loop the active skill is a loaded skill,
\* planning until a tool call or an automatic activation changes it; the
\* list offered to the model holds no activate_<skill> tool, and a tool call
\* that is neither an activation nor a global tool is never met without an
\* active skill.
C38_ActiveSkillNeverEmpty ==
    /\ pc \in {"call", "tools"} =>
          /\ active_skill # None
          /\ active_skill \in skills
          /\ Range(tools(active_skill, active_tools, skills))
                \cap Range(skill_discovery_tools(skills)) = {}
    /\ (pc = "call" /\ iteration = 0) => active_skill = "planning"
    /\ last.op # "no_active_skill"

\* a tool of another skill was called by name and run while the skill that
\* an earlier call of the run switched to was active
C38_Witness ==
    /\ last.op = "script:create_subquestion_tasks"
    /\ active_skill = "answer"
    /\ pc = "call"

\* the tool-role messages after position i that answer the call with this id
AnswersTo(i, id) ==
    {j \in (i + 1)..Len(messages) :
        messages[j].role = "tool" /\ messages[j].tool_call_id = id}

\* C39: at every model call each tool call of each assistant message of the
\* history is answered by exactly one later tool-role message.
C39_EveryRecordedCallAnsweredOnce ==
    pc = "call" =>
        \A i \in 1..Len(messages) :
            \A k \in 1..Len(messages[i].tool_calls) :
                Cardinality(AnswersTo(i, messages[i].tool_calls[k].id)) = 1

\* a recorded response that called a skill tool and a global tool, both
\* answered, at the next model call
C39_Witness ==
    /\ pc = "call"
    /\ \E i \in 1..Len(messages) :
          /\ Len(messages[i].tool_calls) = 2
          /\ messages[i].tool_calls[1].name = <<"grep_file">>
          /\ messages[i].tool_calls[2].name = <<"list_skills">>
          /\ \A k \in 1..2 :
                Cardinality(AnswersTo(i, messages[i].tool_calls[k].id)) = 1

\* C40: during a run the current-task marker is active exactly when the
\* incomplete bin holds a task, and the task it then names is in the bin.
C40_CurrentTaskMatchesBin ==
    pc \in {"call", "tools"} =>
        /\ (current_task.status = "active") = (DOMAIN incomplete # {})
        /\ current_task.status = "active" =>
              current_task.task_number \in DOMAIN incomplete

\* the first of several tasks was completed and the marker moved on
C40_Witness ==
    /\ last.op = "task_completed"
    /\ 1 \in DOMAIN completed
    /\ 1 \notin DOMAIN incomplete
    /\ 2 \in DOMAIN incomplete
    /\ current_task = [status |-> "active", task_number |-> 2]

\* C35: for each session id at most one run is in flight at any time, and a
\* run request is accepted only for a session none of whose runs is in
\* flight, whatever the order of requests, run ends and reaper passes.
C35_OneRunPerSession ==
    /\ [](\A s \in SessionIds : Cardinality(RunsInFlight(s)) <= 1)
    /\ [][Len(web'.runs) > Len(web.runs) =>
              \A r \in DOMAIN web.runs :
                  web.runs[r].session = web'.runs[Len(web'.runs)].session
                      => web.runs[r].phase = "done"]_vars

\* the origin session of an event
EventSession(e) == web.runs[e.run].session

\* C36: every event that the run of a session emits is recorded in the log
\* of that session and put on the stream of that run, and the log and the
\* stream of a session hold no event of a run of another session.
C36_EventsStayInTheirSession ==
    /\ [](\A r \in DOMAIN web.runs :
            /\ \A i \in DOMAIN web.runs[r].queue :
                   EventSession(web.runs[r].queue[i]) = web.runs[r].session
            /\ \A i \in DOMAIN web.runs[r].sent :
                   EventSession(web.runs[r].sent[i]) = web.runs[r].session
            /\ \A i \in DOMAIN web.states[web.runs[r].state].logs :
                   EventSession(web.states[web.runs[r].state].logs[i])
                       = web.runs[r].session)
    /\ [][\A r \in DOMAIN web.runs :
            web'.runs[r].emitted > web.runs[r].emitted =>
                /\ Len(web'.runs[r].queue) > Len(web.runs[r].queue)
                /\ Len(web'.states[web.runs[r].state].logs)
                       > Len(web.states[web.runs[r].state].logs)]_vars

\* the events of a sequence that the run r itself put on a queue
OwnEvents(r, events) ==
    SelectSeq(events, LAMBDA e : e.run = r /\ e.type # "complete")

\* C37: the events that a run put on its event queue are sent to the client
\* in the order in which they were put and once each; when the terminal
\* event has been sent none of them is left in the queue and nothing is sent
\* after it; the step that ends the run leaves the session state of the run
\* not running and completed.
C37_StreamDeliversEveryEventOnce ==
    /\ [](\A r \in DOMAIN web.runs :
            LET own == OwnEvents(r, web.runs[r].sent \o web.runs[r].queue)
                sent == web.runs[r].sent
            IN /\ \A i, j \in DOMAIN own : i < j => own[i].seq < own[j].seq
               /\ web.runs[r].closed =>
                      /\ OwnEvents(r, web.runs[r].queue) = <<>>
                      /\ sent[Len(sent)].type = "complete"
                      /\ \A i \in 1..(Len(sent) - 1) : sent[i].type # "complete"
                      /\ web.runs[r].phase = "done")
    /\ [][\A r \in DOMAIN web.runs :
            (web.runs[r].phase # "done" /\ web'.runs[r].phase = "done") =>
                /\ ~web'.states[web.runs[r].state].running
                /\ web'.states[web.runs[r].state].completed]_vars

\* a run that raised after two entries of its own: both entries and the
\* error event were sent in order before 'complete'
C37_Witness ==
    \E r \in DOMAIN web.runs :
        /\ web.runs[r].closed
        /\ Len(web.runs[r].sent) = MaxEvents + 2
        /\ \A i \in 1..MaxEvents : web.runs[r].sent[i] = [type |-> "log", run |-> r, seq |-> i]
        /\ web.runs[r].sent[MaxEvents + 1].type = "error"
        /\ ~web.states[web.runs[r].state].running
        /\ web.states[web.runs[r].state].completed

\* the target a skill_switch call names, None when it names none
SwitchTarget ==
    IF function_args.members /\ CurrentCall.str # "" THEN CurrentCall.str ELSE None

\* C31: a skill_switch whose target is a loaded skill does what activation
\* does (the active skill and the tool set become the target's, the skill's
\* instructions are read, one tool-role message answering the call is
\* appended) and logs the deactivation of the skill that was active before
\* it logs the activation of the target; a skill_switch with no target or an
\* unknown one appends one tool-role error message answering the call and
\* leaves the active skill and the tool set as they were.
C31_SwitchActivatesOrReportsError ==
    [][(pc = "tools" /\ function_name = <<"skill_switch">>
            /\ function_args.kind = "dict") =>
          IF SwitchTarget # None /\ SwitchTarget \in skills
          THEN /\ active_skill' = SwitchTarget
               /\ active_tools' = get_skill_tools(skills, SwitchTarget)
               /\ skill_entries' = activate_skill(skill_entries, skill_md, SwitchTarget)
               /\ messages' = Append(messages,
                      Msg("tool", "switched:" \o SwitchTarget, CurrentCall.id, <<>>,
                          _get_current_task_info(current_task)))
               /\ Cardinality({i \in DOMAIN logged'.entries :
                                  logged'.entries[i].type = "skill_activated"}) = 1
               /\ \A i \in DOMAIN logged'.entries :
                      logged'.entries[i].type = "skill_activated" =>
                          logged'.entries[i].skill_name = SwitchTarget
               /\ active_skill # None =>
                      \E i, j \in DOMAIN logged'.entries :
                          /\ i < j
                          /\ logged'.entries[i]
                                 = [type |-> "skill_deactivated", skill_name |-> active_skill]
                          /\ logged'.entries[j].type = "skill_activated"
               /\ active_skill = None =>
                      \A i \in DOMAIN logged'.entries :
                          logged'.entries[i].type # "skill_deactivated"
          ELSE /\ Len(messages') = Len(messages) + 1
               /\ messages'[Len(messages')].role = "tool"
               /\ messages'[Len(messages')].tool_call_id = CurrentCall.id
               /\ messages'[Len(messages')].content
                      \in {"error:skill_name_required", "error:skill_not_found"}
               /\ SubSeq(messages', 1, Len(messages)) = messages
               /\ UNCHANGED <<active_skill, active_tools, skill_entries>>
               /\ pc' \in {"tools", "call"}
               /\ \A i \in DOMAIN logged'.entries :
                      logged'.entries[i].type \notin {"skill_deactivated",
                                                      "skill_activated"}]_vars

\* a switch from planning to coding, then a switch to an unknown skill that
\* is answered with an error while coding stays active
C31_Witness ==
    /\ last.op = "switch_unknown"
    /\ active_skill = "coding"
    /\ LastMsg.role = "tool"
    /\ LastMsg.content = "error:skill_not_found"
    /\ \E i \in DOMAIN messages :
          messages[i].role = "tool" /\ messages[i].content = "switched:coding"

====
